---- MODULE Spec2Model ----
(***************************************************************************)
(* Verification model of the Akash provider pricing script (Go port).      *)
(*                                                                         *)
(* Nine specifications share the variables below:                           *)
(*   Spec     - sequential invocations of GetAKTPrice on the price cache   *)
(*              file, with the clock advancing between invocations;        *)
(*   SpecRace - several invocations of GetAKTPrice interleaved at the      *)
(*              granularity of their system calls on the same cache file;  *)
(*   SpecGPU  - CalculateTotalGPUPrice applied to bounded inputs;          *)
(*   SpecRes  - CalculateRequestedResources applied to bounded inputs;     *)
(*   SpecDenom - HandleDenomLogic applied to bounded inputs;               *)
(*   SpecBid  - runs of the entry point RequestToBidPrice;                 *)
(*   SpecTwice - the same invocation of RequestToBidPrice run twice;       *)
(*   SpecRates - CalculateBlockRates applied to bounded inputs;            *)
(*   SpecParse - ParseGPUPriceMappings applied to bounded inputs.          *)
(*                                                                         *)
(* Prices are fixed-point integers: a price p stands for p / PriceUnit     *)
(* USD.  File contents are sequences of one-character strings.             *)
(***************************************************************************)
EXTENDS Integers, Sequences, FiniteSets, TLC

VARIABLES
    cache,        \* /tmp/aktprice.cache: [exists, text, age]
    calls,        \* Spec: number of completed GetAKTPrice invocations
    last,         \* Spec: what the last completed invocation saw and returned
    inv,          \* SpecRace: per-process invocation state
    delivered,    \* SpecRace: prices a source has delivered so far
    persisted,    \* SpecRace: complete rate texts persisted so far
    gpuMappings,  \* SpecGPU: PriceTargets.GPUMappings
    gSpec,        \* SpecGPU: the GroupSpec's resource units
    gpuOut,       \* SpecGPU: result of CalculateTotalGPUPrice
    resOut,       \* SpecRes: result of CalculateRequestedResources
    denomCall,    \* SpecDenom: arguments and result of HandleDenomLogic
    whitelist,    \* SpecBid: /tmp/price-script.whitelist: [exists, lines, age]
    bidOut,       \* SpecBid: what the last run of RequestToBidPrice did
    runs,         \* SpecBid: number of completed runs
    prevBid,      \* SpecTwice: what the first of the two runs did
    rateCall,     \* SpecRates: arguments and result of CalculateBlockRates
    parseCall     \* SpecParse: argument and result of ParseGPUPriceMappings

cacheVars == <<cache, calls, last>>
raceVars  == <<inv, delivered, persisted>>
gpuVars   == <<gpuMappings, gSpec, gpuOut>>
resVars   == <<resOut>>
denomVars == <<denomCall>>
bidVars   == <<whitelist, bidOut, runs, prevBid>>
pureVars  == <<rateCall, parseCall>>
restVars  == <<resOut, denomCall, whitelist, bidOut, runs, prevBid,
               rateCall, parseCall>>
vars      == <<cache, calls, last, inv, delivered, persisted,
               gpuMappings, gSpec, gpuOut,
               resOut, denomCall, whitelist, bidOut, runs, prevBid,
               rateCall, parseCall>>

----------------------------------------------------------------------------
(* Bounds of the model *)

\* Digits of price resolution beyond the six that "%f" prints.
ExtraDigits == 1
\* Largest cache-file age (minutes) the clock is followed to.
MaxAge == 62
\* Invocations of GetAKTPrice followed in Spec.
MaxCalls == 2
\* Concurrent invocations of GetAKTPrice in SpecRace.
NumProcs == 2
\* Resource units of a GroupSpec in SpecGPU.
MaxUnits == 2
\* Comma-separated pairs in a PRICE_TARGET_GPU_MAPPINGS string of SpecParse.
MaxPairs == 2

(* Program constants *)

\* fmt.Sprintf("%f", price) prints six fractional digits.
FracDigits == 6
\* readCachedPrice: 60*time.Minute
FreshMinutes == 60
\* MaxGPUPrice: maxPrice := 100.0
DefaultMaxGPUPrice == 100

----------------------------------------------------------------------------
(* Decimal text *)

Digits == <<"0", "1", "2", "3", "4", "5", "6", "7", "8", "9">>

DigitSet == {Digits[i] : i \in 1..10}

DigitVal(c) == (CHOOSE i \in 1..10 : Digits[i] = c) - 1

RECURSIVE Pow10(_)
Pow10(k) == IF k = 0 THEN 1 ELSE 10 * Pow10(k - 1)

\* One USD in price units.
PriceUnit == Pow10(FracDigits + ExtraDigits)

\* Decimal digits of n, no leading zeros.
RECURSIVE NatText(_)
NatText(n) ==
    IF n < 10 THEN <<Digits[n + 1]>>
    ELSE Append(NatText(n \div 10), Digits[(n % 10) + 1])

\* The k low decimal digits of m, zero-padded on the left.
RECURSIVE FracText(_, _)
FracText(m, k) ==
    IF k = 0 THEN <<>>
    ELSE Append(FracText(m \div 10, k - 1), Digits[(m % 10) + 1])

\* Value of a sequence of digit characters.
RECURSIVE DigitsVal(_)
DigitsVal(s) ==
    IF s = <<>> THEN 0
    ELSE 10 * DigitsVal(SubSeq(s, 1, Len(s) - 1)) + DigitVal(s[Len(s)])

\* s cut or zero-padded on the right to exactly k characters.
PadRight(s, k) ==
    [i \in 1..k |-> IF i <= Len(s) THEN s[i] ELSE "0"]

\* fmt.Sprintf("%f", price): the price rounded to FracDigits fractional
\* digits.  (Inputs are chosen off the exact rounding ties.)
FormatF(price) ==
    LET drop  == Pow10(ExtraDigits)
        micro == (price + (drop \div 2)) \div drop
    IN  NatText(micro \div Pow10(FracDigits))
            \o <<".">>
            \o FracText(micro % Pow10(FracDigits), FracDigits)

\* strconv.ParseFloat(text, 64) over the alphabet of digits, "." and other
\* characters: digits with at most one ".", at least one digit; anything
\* else (the empty string, a trailing newline) is a syntax error.  Digits
\* beyond the model's resolution are dropped.
ParseFloat(text) ==
    LET dots  == {i \in DOMAIN text : text[i] = "."}
        valid == /\ \A i \in DOMAIN text : text[i] \in DigitSet \cup {"."}
                 /\ Cardinality(dots) <= 1
                 /\ \E i \in DOMAIN text : text[i] \in DigitSet
        dot   == IF dots = {} THEN Len(text) + 1 ELSE CHOOSE i \in dots : TRUE
        whole == SubSeq(text, 1, dot - 1)
        frac  == SubSeq(text, dot + 1, Len(text))
    IN  IF valid
        THEN [err |-> FALSE,
              price |-> DigitsVal(whole) * PriceUnit
                          + DigitsVal(PadRight(frac, FracDigits + ExtraDigits))]
        ELSE [err |-> TRUE, price |-> 0]

----------------------------------------------------------------------------
(* The price cache file and the two price sources *)

\* Exchange rates a source can deliver (2.5, 2.1234567 and 12.345678 USD
\* at ExtraDigits = 1): one that "%f" prints exactly, one it rounds, and
\* one whose text is a character longer.
Rates == {25000000, 21234567, 123456780}

NoFile == [exists |-> FALSE, text |-> <<>>, age |-> 0]

File(text, age) == [exists |-> TRUE, text |-> text, age |-> age]

\* `echo "2.50" > /tmp/aktprice.cache`: the operator pre-populating the
\* cache as the guides tell them to, trailing newline included.
EchoText == <<"2", ".", "5", "0", "\n">>

\* What an HTTP GET of a price source can come back with: a transport
\* error, a body that is not JSON, or a decoded JSON value.  A decoded
\* value carries the price at v["price"] (shape "price"), at
\* v["akash-network"]["usd"] (shape "nested") or at neither ("other").
NetErr  == [kind |-> "neterr",  shape |-> "other", val |-> 0]
BadJSON == [kind |-> "badjson", shape |-> "other", val |-> 0]
NoField == [kind |-> "json",    shape |-> "other", val |-> 0]
NoResp  == [kind |-> "none",    shape |-> "other", val |-> 0]

PriceJSON(shape, v) == [kind |-> "json", shape |-> shape, val |-> v]

Responses ==
    {NetErr, BadJSON, NoField}
        \cup {PriceJSON(s, v) : s \in {"price", "nested"}, v \in Rates}

\* The source answered with a price.
Delivers(resp) == resp.kind = "json" /\ resp.shape \in {"price", "nested"}

\* Outcomes of ioutil.WriteFile: written; the open failed (file untouched);
\* the write failed after the open had truncated the file.
WriteOutcomes == {"ok", "open_error", "write_error"}

Failure == [err |-> TRUE, price |-> 0]

Success(price) == [err |-> FALSE, price |-> price]

\* Mutant: the window taken in seconds (60*time.Second is one minute).
Expired_Seconds(c) == ~c.exists \/ c.age > 1

\* Mutant: the window closed at its end (>= for >).
Expired_Strict(c) == ~c.exists \/ c.age >= FreshMinutes

\* cache.go:36
Expired(c) == ~c.exists \/ c.age > FreshMinutes

\* Mutant: the cache file never used.
readCachedPrice_Never(c, readOk) == Failure

\* cache.go:34-51.  readOk: whether ioutil.ReadFile succeeds.
readCachedPrice(c, readOk) ==
    IF Expired(c) THEN Failure
    ELSE IF ~readOk THEN Failure
    ELSE ParseFloat(c.text)

\* cache.go:84-97
extractPrice(data) ==
    IF data.shape = "price" THEN data.val
    ELSE IF data.shape = "nested" THEN data.val
    ELSE 0

\* cache.go:68-81
fetchPriceFromURL(resp) ==
    IF resp.kind = "neterr" THEN Failure
    ELSE IF resp.kind = "badjson" THEN Failure
    ELSE Success(extractPrice(resp))

\* Mutant: the primary's failure returned without trying the fallback.
fetchPriceFromAPI_NoFallback(primary, fallback) ==
    [res |-> fetchPriceFromURL(primary), requests |-> <<"primary">>]

\* cache.go:54-65.  requests: the sources contacted, in order.
fetchPriceFromAPI(primary, fallback) ==
    LET p == fetchPriceFromURL(primary)
    IN  IF p.err
        THEN [res |-> fetchPriceFromURL(fallback),
              requests |-> <<"primary", "fallback">>]
        ELSE [res |-> p, requests |-> <<"primary">>]

\* cache.go:100-102
cachePrice(c, price, w) ==
    CASE w = "ok" ->
            [err |-> FALSE, cache |-> File(FormatF(price), 0)]
      [] w = "open_error" ->
            [err |-> TRUE, cache |-> c]
      [] w = "write_error" ->
            [err |-> TRUE, cache |-> File(<<>>, 0)]

\* What os.Stat and time.Since(ModTime) show of the cache file, relative
\* to the freshness window.
StatOf(c) ==
    IF ~c.exists THEN "absent"
    ELSE IF c.age < FreshMinutes THEN "below"
    ELSE IF c.age = FreshMinutes THEN "at"
    ELSE "above"

\* Whether the invocation got as far as ioutil.ReadFile, and how it went.
ReadOf(c, readOk) ==
    IF Expired(c) THEN "none" ELSE IF readOk THEN "ok" ELSE "error"

\* Mutant: the fetched value cached before the fetch error is looked at.
GetAKTPrice_CacheBeforeCheck(c, readOk, primary, fallback, w) ==
    LET cached == readCachedPrice(c, readOk)
        api    == fetchPriceFromAPI(primary, fallback)
        saved  == cachePrice(c, api.res.price, "ok")
        seen   == [stat |-> StatOf(c), read |-> ReadOf(c, readOk)]
        asked  == seen @@
                  [path |-> "refresh", requests |-> api.requests,
                   primary |-> primary,
                   fallback |-> IF Len(api.requests) = 2 THEN fallback ELSE NoResp]
    IN  IF ~cached.err
        THEN seen @@
             [path |-> "hit", requests |-> <<>>, primary |-> NoResp,
              fallback |-> NoResp, write |-> "none",
              err |-> FALSE, price |-> cached.price, cache |-> c]
        ELSE IF api.res.err
        THEN asked @@ [write |-> "none", err |-> TRUE, price |-> 0,
                       cache |-> saved.cache]
        ELSE asked @@ [write |-> "ok", err |-> FALSE, price |-> api.res.price,
                       cache |-> saved.cache]

\* cache.go:14-31.  The result, with what the invocation did on the way:
\* path ("hit"/"refresh"), what stat and read showed, the responses of the
\* sources it contacted, the outcome of the cache write, and the cache
\* file it leaves.
GetAKTPrice(c, readOk, primary, fallback, w) ==
    LET cached == readCachedPrice(c, readOk)
        api    == fetchPriceFromAPI(primary, fallback)
        saved  == cachePrice(c, api.res.price, w)
        seen   == [stat |-> StatOf(c), read |-> ReadOf(c, readOk)]
        asked  == seen @@
                  [path |-> "refresh", requests |-> api.requests,
                   primary |-> primary,
                   fallback |-> IF Len(api.requests) = 2 THEN fallback ELSE NoResp]
    IN  IF ~cached.err
        THEN seen @@
             [path |-> "hit", requests |-> <<>>, primary |-> NoResp,
              fallback |-> NoResp, write |-> "none",
              err |-> FALSE, price |-> cached.price, cache |-> c]
        ELSE IF api.res.err
        THEN asked @@ [write |-> "none", err |-> TRUE, price |-> 0, cache |-> c]
        ELSE IF saved.err
        THEN asked @@ [write |-> w, err |-> TRUE, price |-> 0, cache |-> saved.cache]
        ELSE asked @@ [write |-> w, err |-> FALSE, price |-> api.res.price,
                       cache |-> saved.cache]

NoCall == [path |-> "none", stat |-> "absent", read |-> "none",
           requests |-> <<>>, primary |-> NoResp, fallback |-> NoResp,
           write |-> "none", err |-> FALSE, price |-> 0]

Report(r) == [f \in DOMAIN NoCall |-> r[f]]

----------------------------------------------------------------------------
(* Spec: sequential invocations *)

RaceIdle == /\ inv = <<>>
            /\ delivered = {}
            /\ persisted = {}

GPUIdle == /\ gpuMappings = <<>>
           /\ gSpec = <<>>
           /\ gpuOut = <<>>

ResIdle == resOut = <<>>

DenomIdle == denomCall = <<>>

NoWhitelist == [exists |-> FALSE, lines |-> <<>>, age |-> 0]

BidIdle == /\ whitelist = NoWhitelist
           /\ bidOut = <<>>
           /\ runs = 0
           /\ prevBid = <<>>

PureIdle == rateCall = <<>> /\ parseCall = <<>>

RestIdle == ResIdle /\ DenomIdle /\ BidIdle /\ PureIdle

Init ==
    /\ cache \in {NoFile, File(FormatF(25000000), 0), File(EchoText, 0)}
    /\ calls = 0
    /\ last = NoCall
    /\ RaceIdle
    /\ GPUIdle
    /\ RestIdle

\* Ages at which the cache file is looked at: just written, either side of
\* the freshness window and on it, and well past it.
SampleAges == {1, FreshMinutes - 1, FreshMinutes, FreshMinutes + 1, MaxAge}

\* Time passes: the file's modification time falls further back.
Tick ==
    /\ cache.exists
    /\ \E a \in SampleAges :
          /\ a > cache.age
          /\ cache' = [cache EXCEPT !.age = a]
    /\ UNCHANGED <<calls, last, raceVars, gpuVars, restVars>>

\* One whole invocation of GetAKTPrice.  The environment's answers are
\* drawn only for the calls the invocation makes.
Invoke ==
    /\ calls < MaxCalls
    /\ \E readOk \in (IF Expired(cache) THEN {TRUE} ELSE BOOLEAN) :
       \E primary \in (IF readCachedPrice(cache, readOk).err
                       THEN Responses ELSE {NoResp}) :
       \E fallback \in (IF primary # NoResp /\ fetchPriceFromURL(primary).err
                        THEN Responses ELSE {NoResp}) :
       \E w \in (IF primary # NoResp
                      /\ ~fetchPriceFromAPI(primary, fallback).res.err
                 THEN WriteOutcomes ELSE {"ok"}) :
            LET r == GetAKTPrice(cache, readOk, primary, fallback, w)
            IN  /\ cache' = r.cache
                /\ last' = Report(r)
    /\ calls' = calls + 1
    /\ UNCHANGED <<raceVars, gpuVars, restVars>>

Next == Tick \/ Invoke

Spec == Init /\ [][Next]_vars

----------------------------------------------------------------------------
(* Claims about the price-feed cache, checked under Spec *)

\* The step is an invocation of GetAKTPrice.
Called == calls' = calls + 1

\* The cache file holds a rate that parses.
HoldsRate(c) == c.exists /\ ~ParseFloat(c.text).err

\* The request failed: transport error or undecodable body.
Errored(resp) == resp.kind \in {"neterr", "badjson"}

\* The prices the sources contacted by invocation l delivered.
DeliveredBy(l) ==
    {r.val : r \in {x \in {l.primary, l.fallback} : Delivers(x)}}

\* C1: whenever a persisted rate exists, can be read and parsed, and is
\* younger than 60 minutes, the invocation returns exactly that rate and
\* contacts neither source.
C1_FreshCacheHit ==
    [][(/\ Called
        /\ HoldsRate(cache)
        /\ cache.age < FreshMinutes
        /\ last'.read # "error")
       => (/\ ~last'.err
           /\ last'.price = ParseFloat(cache.text).price
           /\ last'.requests = <<>>)]_vars

C1_Witness ==
    /\ last.path = "hit"
    /\ last.stat = "below"
    /\ last.read = "ok"
    /\ last.price = 25000000
    /\ last.requests = <<>>

\* C2 as claimed: a persisted rate aged 60 minutes or more, exactly 60
\* included, is never a cache hit and triggers a refresh from the sources.
C2_StrictWindow ==
    last.stat \in {"at", "above"}
        => (last.path = "refresh" /\ last.requests # <<>>)

\* C2 as amended: a persisted rate is valid while its age is at most 60
\* minutes; one older than 60 minutes is treated as absent, is never a
\* cache hit and triggers a refresh; one aged exactly 60 minutes that
\* parses is still returned as a hit unless reading the file fails.
C2_InclusiveWindow ==
    [][Called =>
        (/\ (cache.exists /\ cache.age > FreshMinutes)
                => (last'.path = "refresh" /\ last'.requests # <<>>)
         /\ last'.path = "hit"
                => (cache.exists /\ cache.age <= FreshMinutes)
         /\ (HoldsRate(cache) /\ cache.age = FreshMinutes)
                => \/ last'.path = "hit" /\ last'.requests = <<>>
                   \/ last'.read = "error")]_vars

C2_Witness ==
    /\ last.stat = "at"
    /\ last.path = "hit"
    /\ cache.age = FreshMinutes

\* C3: in a refresh, every primary failure - transport error, undecodable
\* body, or a decoded body without the price field - has the fallback
\* source attempted before the invocation returns.
C3_FallbackOnAnyFailure ==
    (last.path = "refresh" /\ ~Delivers(last.primary))
        => last.requests = <<"primary", "fallback">>

\* C4: a successful refresh returns, and persists, only a rate that the
\* primary or the fallback actually delivered; when neither delivered one
\* the invocation fails and nothing is written.
C4_NoSubstitutedRate ==
    last.path = "refresh" =>
        IF DeliveredBy(last) = {}
        THEN last.err /\ last.write = "none"
        ELSE ~last.err => last.price \in DeliveredBy(last)

\* C5 as claimed: an error is returned only when the cache was not usable
\* and both sources failed; a cache hit, or a source delivering a rate,
\* means success.
C5_ErrorOnlyIfBothFail ==
    /\ last.err => (/\ last.path = "refresh"
                    /\ ~Delivers(last.primary)
                    /\ ~Delivers(last.fallback))
    /\ (\/ last.path = "hit"
        \/ Delivers(last.primary)
        \/ Delivers(last.fallback)) => ~last.err

\* C5 as amended: an error is returned only when the cache was not usable
\* and either both the primary and the fallback request failed or the
\* fetched value could not be written to the cache file; a cache hit, or a
\* request answered with a decoded body followed by a successful cache
\* write, means success.
C5_ErrorOnlyIfFetchOrWriteFails ==
    /\ last.err =>
          (/\ last.path = "refresh"
           /\ \/ Errored(last.primary) /\ Errored(last.fallback)
              \/ last.write \in {"open_error", "write_error"})
    /\ last.path = "hit" => ~last.err
    /\ (/\ last.path = "refresh"
        /\ \E r \in {last.primary, last.fallback} : r.kind = "json"
        /\ last.write = "ok") => ~last.err

C5_Witness ==
    /\ last.err
    /\ Delivers(last.primary)
    /\ last.write = "open_error"

\* C6: after a refresh that completes with a source having delivered a
\* rate, the cache file holds that rate, its age is zero, and the
\* invocation returns that same rate.
C6_PersistsFetchedRate ==
    [][(/\ Called
        /\ last'.path = "refresh"
        /\ ~last'.err
        /\ DeliveredBy(last') # {})
       => (/\ last'.price \in DeliveredBy(last')
           /\ HoldsRate(cache')
           /\ cache'.age = 0
           /\ ParseFloat(cache'.text).price = last'.price)]_vars

----------------------------------------------------------------------------
(* SpecRace: invocations of GetAKTPrice interleaved on the same cache file *)

(* Each invocation is a separate process of the operating system; nothing  *)
(* in cache.go locks the file.  An invocation is followed through its      *)
(* system calls: stat, read, the HTTP requests, and the two halves of      *)
(* ioutil.WriteFile - open with O_TRUNC, then write at offset 0.  The      *)
(* sources here either fail at transport or deliver a rate; answers        *)
(* without the price field are the subject of C3 and C4 under Spec.        *)

Procs == 1..NumProcs

RaceResponses == {NetErr} \cup {PriceJSON("price", v) : v \in Rates}

\* A write of `text` at offset 0 into a file holding `old`: bytes of `old`
\* beyond the written ones stay.
Overlay(old, text) ==
    text \o SubSeq(old, Len(text) + 1, Len(old))

Started == [pc |-> "stat", err |-> FALSE, price |-> 0, wrote |-> FALSE]

InitRace ==
    /\ cache \in {NoFile,
                  File(FormatF(25000000), 0),
                  File(FormatF(25000000), FreshMinutes + 1)}
    /\ inv = [p \in Procs |-> Started]
    /\ delivered = {}
    /\ persisted = IF HoldsRate(cache) THEN {cache.text} ELSE {}
    /\ calls = 0
    /\ last = NoCall
    /\ GPUIdle
    /\ RestIdle

\* cache.go:35-38: os.Stat and the age test.
RStat(p) ==
    /\ inv[p].pc = "stat"
    /\ inv' = [inv EXCEPT ![p].pc = IF Expired(cache) THEN "fetch" ELSE "read"]
    /\ UNCHANGED <<cache, delivered, persisted, calls, last, gpuVars, restVars>>

\* cache.go:40-50 and 17-19: ioutil.ReadFile, strconv.ParseFloat, and the
\* return of a cache hit.
RRead(p) ==
    /\ inv[p].pc = "read"
    /\ LET cached == ParseFloat(cache.text)
       IN  inv' = [inv EXCEPT ![p] =
                      IF cached.err THEN [@ EXCEPT !.pc = "fetch"]
                      ELSE [@ EXCEPT !.pc = "done", !.price = cached.price]]
    /\ UNCHANGED <<cache, delivered, persisted, calls, last, gpuVars, restVars>>

\* cache.go:21-24: fetchPriceFromAPI and the return of its error.
RFetch(p) ==
    /\ inv[p].pc = "fetch"
    /\ \E primary \in RaceResponses :
       \E fallback \in (IF fetchPriceFromURL(primary).err
                        THEN RaceResponses ELSE {NoResp}) :
          LET api == fetchPriceFromAPI(primary, fallback)
          IN  /\ inv' = [inv EXCEPT ![p] =
                            IF api.res.err
                            THEN [@ EXCEPT !.pc = "done", !.err = TRUE]
                            ELSE [@ EXCEPT !.pc = "open", !.price = api.res.price]]
              /\ delivered' = delivered \cup DeliveredBy(
                     [primary |-> primary, fallback |-> fallback])
    /\ UNCHANGED <<cache, persisted, calls, last, gpuVars, restVars>>

\* cache.go:101, first half of ioutil.WriteFile:
\* os.OpenFile(name, O_WRONLY|O_CREATE|O_TRUNC, perm).
ROpen(p) ==
    /\ inv[p].pc = "open"
    /\ cache' = File(<<>>, 0)
    /\ inv' = [inv EXCEPT ![p].pc = "write"]
    /\ UNCHANGED <<delivered, persisted, calls, last, gpuVars, restVars>>

\* cache.go:101 and 30, second half of ioutil.WriteFile: f.Write(data) at
\* the descriptor's offset 0, then the return of the price.
RWrite(p) ==
    /\ inv[p].pc = "write"
    /\ cache' = File(Overlay(cache.text, FormatF(inv[p].price)), 0)
    /\ persisted' = persisted \cup {FormatF(inv[p].price)}
    /\ inv' = [inv EXCEPT ![p].pc = "done", ![p].wrote = TRUE]
    /\ UNCHANGED <<delivered, calls, last, gpuVars, restVars>>

NextRace ==
    \E p \in Procs :
        RStat(p) \/ RRead(p) \/ RFetch(p) \/ ROpen(p) \/ RWrite(p)

SpecRace == InitRace /\ [][NextRace]_vars

\* C8: the race is benign: every invocation that succeeds returns a rate
\* that is a complete persisted value or a value a source delivered, and
\* once all invocations have finished the cache file holds one complete
\* rate written by one of them.
C8_BenignRace ==
    /\ \A p \in Procs :
          (inv[p].pc = "done" /\ ~inv[p].err)
              => inv[p].price \in
                    delivered \cup {ParseFloat(t).price : t \in persisted}
    /\ (/\ \A p \in Procs : inv[p].pc = "done"
        /\ \E p \in Procs : inv[p].wrote)
          => \E p \in Procs :
                /\ inv[p].wrote
                /\ cache = File(FormatF(inv[p].price), 0)

----------------------------------------------------------------------------
(* SpecGPU: CalculateTotalGPUPrice on bounded inputs *)

(* A GPU price key "model.vram.interface" is the sequence of its tokens    *)
(* (tokens hold no "."), so "a100.80Gi" is <<"a100", "80Gi">> and "a100."  *)
(* is <<"a100", "">>.  An attribute key "vendor/nvidia/model/a100/ram/..." *)
(* is the sequence of its "/"-separated parts.  GPU prices are whole USD.  *)

\* The price table the mappings are drawn from: the three tiers of one
\* model, a model.interface key, and one price below the default maximum.
PriceTable ==
    (<<"a100", "80Gi", "sxm4">> :> 280) @@ (<<"a100", "80Gi">> :> 250)
        @@ (<<"a100">> :> 200) @@ (<<"a100", "sxm4">> :> 80)

GPUMappingSets == {[k \in K |-> PriceTable[k]] : K \in SUBSET DOMAIN PriceTable}

\* What a GPU descriptor carries; "" for an attribute it does not carry.
Carried == [model : {"a100", "h100"}, vram : {"", "80Gi"},
            interface : {"", "sxm4"}]

\* The attribute key of a descriptor carrying d.
AttrKey(d) ==
    <<"vendor", "nvidia", "model", d.model>>
        \o (IF d.vram # "" THEN <<"ram", d.vram>> ELSE <<>>)
        \o (IF d.interface # "" THEN <<"interface", d.interface>> ELSE <<>>)

NoGPU == [present |-> FALSE, Units |-> 0, Attributes |-> <<>>,
          carries |-> [model |-> "", vram |-> "", interface |-> ""]]

\* Resources.GPU of a unit; `carries` records what the descriptor was
\* built from and is not read by the code.
GPUOf(units, d) ==
    [present |-> TRUE, Units |-> units, Attributes |-> <<AttrKey(d)>>,
     carries |-> d]

\* Repetition count and GPU unit count of a resource unit.
UnitShapes == {[Count |-> 1, Units |-> 1], [Count |-> 2, Units |-> 3]}

ResourceUnits ==
    {[Count |-> sh.Count, GPU |-> NoGPU] : sh \in {x \in UnitShapes : x.Count = 1}}
        \cup {[Count |-> sh.Count, GPU |-> GPUOf(sh.Units, d)] :
                sh \in UnitShapes, d \in Carried}

GroupSpecs == UNION {[1..n -> ResourceUnits] : n \in 1..MaxUnits}

\* Mutant: the running maximum started at 0 instead of 100.
MaxGPUPrice_FromZero(m) ==
    IF DOMAIN m = {} THEN DefaultMaxGPUPrice
    ELSE CHOOSE v \in {m[k] : k \in DOMAIN m} :
            \A k \in DOMAIN m : m[k] <= v

\* gpu.go:45-53
MaxGPUPrice(m) ==
    LET above == {m[k] : k \in {x \in DOMAIN m : m[x] > DefaultMaxGPUPrice}}
    IN  IF above = {} THEN DefaultMaxGPUPrice
        ELSE CHOOSE v \in above : \A w \in above : w <= v

\* gpu.go:67-83: one attribute key scanned for the tokens that follow
\* "model", "ram" and "interface".
RECURSIVE ScanParts(_, _, _)
ScanParts(parts, i, acc) ==
    IF i > Len(parts) THEN acc
    ELSE LET follows == i + 1 <= Len(parts)
             next == CASE parts[i] = "model" /\ follows ->
                            [acc EXCEPT !.model = parts[i + 1]]
                       [] parts[i] = "ram" /\ follows ->
                            [acc EXCEPT !.vram = parts[i + 1]]
                       [] parts[i] = "interface" /\ follows ->
                            [acc EXCEPT !.interface = parts[i + 1]]
                       [] OTHER -> acc
         IN  ScanParts(parts, i + 1, next)

\* gpu.go:64-84
RECURSIVE ScanAttributes(_, _, _)
ScanAttributes(attrs, k, acc) ==
    IF k > Len(attrs) THEN acc
    ELSE ScanAttributes(attrs, k + 1, ScanParts(attrs[k], 1, acc))

\* gpu.go:86-93
GPUKey(model, vram, interfaceType) ==
    <<model>>
        \o (IF vram # "" THEN <<vram>> ELSE <<>>)
        \o (IF interfaceType # "" THEN <<interfaceType>> ELSE <<>>)

\* price, found := gpuMappings[gpuKey]
Lookup(m, key) ==
    IF key \in DOMAIN m THEN [found |-> TRUE, price |-> m[key]]
    ELSE [found |-> FALSE, price |-> 0]

\* Mutant: the model.vram tier skipped.
ResolvePrice_SkipVram(model, vram, interfaceType, m, maxGPUPrice) ==
    LET full == Lookup(m, GPUKey(model, vram, interfaceType))
        byModel == Lookup(m, <<model>>)
    IN  IF ~full.found /\ interfaceType # ""
        THEN IF byModel.found THEN byModel.price ELSE maxGPUPrice
        ELSE full.price

\* gpu.go:95-109
ResolvePrice(model, vram, interfaceType, m, maxGPUPrice) ==
    LET full == Lookup(m, GPUKey(model, vram, interfaceType))
        byVram == Lookup(m, <<model, vram>>)
        byModel == Lookup(m, <<model>>)
    IN  IF ~full.found /\ interfaceType # ""
        THEN IF byVram.found THEN byVram.price
             ELSE IF byModel.found THEN byModel.price
             ELSE maxGPUPrice
        ELSE full.price

\* gpu.go:59-115: the units from the k-th on; the running total and the
\* lines of the "GPU Pricing:" log.
RECURSIVE PriceUnits(_, _, _, _, _)
PriceUnits(units, k, m, maxGPUPrice, acc) ==
    IF k > Len(units) THEN acc
    ELSE LET ru == units[k]
             a == ScanAttributes(ru.GPU.Attributes, 1,
                      [model |-> "", vram |-> "", interface |-> ""])
             price == ResolvePrice(a.model, a.vram, a.interface, m, maxGPUPrice)
             cost == ru.Count * ru.GPU.Units * price
         IN  IF ru.GPU.present
             THEN PriceUnits(units, k + 1, m, maxGPUPrice,
                    [total |-> acc.total + cost,
                     log |-> Append(acc.log,
                               [unit |-> k, model |-> a.model, vram |-> a.vram,
                                interface |-> a.interface,
                                units |-> ru.GPU.Units, price |-> price,
                                total |-> cost])])
             ELSE PriceUnits(units, k + 1, m, maxGPUPrice, acc)

\* Mutant: the loop left after the first resource unit.
CalculateTotalGPUPrice_FirstUnitOnly(units, m, maxGPUPrice) ==
    PriceUnits(SubSeq(units, 1, 1), 1, m, maxGPUPrice,
               [total |-> 0, log |-> <<>>])

\* gpu.go:56-118
CalculateTotalGPUPrice(units, m, maxGPUPrice) ==
    PriceUnits(units, 1, m, maxGPUPrice, [total |-> 0, log |-> <<>>])

CacheIdle == /\ cache = NoFile
             /\ calls = 0
             /\ last = NoCall

InitGPU ==
    /\ gpuMappings \in GPUMappingSets
    /\ gSpec \in GroupSpecs
    /\ gpuOut = <<>>
    /\ CacheIdle
    /\ RaceIdle
    /\ RestIdle

\* RequestToBidPrice's GPU step: MaxGPUPrice, then CalculateTotalGPUPrice.
CalcGPU ==
    /\ gpuOut = <<>>
    /\ LET maxGPUPrice == MaxGPUPrice(gpuMappings)
           out == CalculateTotalGPUPrice(gSpec, gpuMappings, maxGPUPrice)
       IN  gpuOut' = [done |-> TRUE, max |-> maxGPUPrice,
                      total |-> out.total, log |-> out.log]
    /\ UNCHANGED <<gpuMappings, gSpec, cacheVars, raceVars, restVars>>

NextGPU == CalcGPU

SpecGPU == InitGPU /\ [][NextGPU]_vars

----------------------------------------------------------------------------
(* Claims about GPU price resolution, checked under SpecGPU *)

GPUDone == gpuOut # <<>>

\* The value of the first of `keys` present in the mapping, the default
\* price when none is.
FirstPresent(m, keys, default) ==
    IF \E i \in DOMAIN keys : keys[i] \in DOMAIN m
    THEN m[keys[CHOOSE i \in DOMAIN keys :
                  /\ keys[i] \in DOMAIN m
                  /\ \A j \in 1..(i - 1) : keys[j] \notin DOMAIN m]]
    ELSE default

\* What the descriptor of the unit a log line is about carries.
CarriedBy(line) == gSpec[line.unit].GPU.carries

\* C9: for a descriptor carrying model, vram and interface, the resolved
\* unit price is the mapping's value for the first key present among
\* model.vram.interface, model.vram, model, and the default price if none
\* of the three is present.
C9_ThreeTierResolution ==
    GPUDone =>
        \A n \in DOMAIN gpuOut.log :
            LET d == CarriedBy(gpuOut.log[n])
            IN  (d.model # "" /\ d.vram # "" /\ d.interface # "")
                    => gpuOut.log[n].price =
                          FirstPresent(gpuMappings,
                              << <<d.model, d.vram, d.interface>>,
                                 <<d.model, d.vram>>,
                                 <<d.model>> >>,
                              gpuOut.max)

\* A full descriptor whose full key is absent, resolved at the model.vram
\* tier although the model key is present too.
C9_Witness ==
    /\ GPUDone
    /\ <<"a100", "80Gi", "sxm4">> \notin DOMAIN gpuMappings
    /\ <<"a100", "80Gi">> \in DOMAIN gpuMappings
    /\ <<"a100">> \in DOMAIN gpuMappings
    /\ \E n \in DOMAIN gpuOut.log :
          /\ CarriedBy(gpuOut.log[n]) =
                [model |-> "a100", vram |-> "80Gi", interface |-> "sxm4"]
          /\ gpuOut.log[n].price = 250

\* C10: for a descriptor without an interface, the resolved unit price is
\* the mapping's value for model.vram, else for model, else the default
\* price (with model only: for model, else the default price).
C10_NoInterfaceResolution ==
    GPUDone =>
        \A n \in DOMAIN gpuOut.log :
            LET d == CarriedBy(gpuOut.log[n])
            IN  (d.model # "" /\ d.interface = "")
                    => gpuOut.log[n].price =
                          FirstPresent(gpuMappings,
                              IF d.vram # ""
                              THEN << <<d.model, d.vram>>, <<d.model>> >>
                              ELSE << <<d.model>> >>,
                              gpuOut.max)

\* The prices configured in mapping m.
MappedPrices(m) == {m[k] : k \in DOMAIN m}

\* The largest element of a non-empty set of numbers.
Largest(S) == CHOOSE v \in S : \A w \in S : w <= v

\* C11 as claimed: the default GPU price is the maximum value present in
\* the mapping whenever the mapping is non-empty, and the fixed constant
\* 100 only when the mapping is empty.
C11_DefaultIsMappingMax ==
    GPUDone =>
        gpuOut.max = IF DOMAIN gpuMappings = {} THEN DefaultMaxGPUPrice
                     ELSE Largest(MappedPrices(gpuMappings))

\* C11 as amended: the default GPU price is the larger of the fixed
\* constant 100 and the maximum value present in the mapping; it is 100
\* when the mapping is empty or holds no value above 100.
C11_DefaultIsMaxAbove100 ==
    GPUDone =>
        /\ gpuOut.max = Largest(MappedPrices(gpuMappings) \cup {DefaultMaxGPUPrice})
        /\ (\A v \in MappedPrices(gpuMappings) : v <= DefaultMaxGPUPrice)
              => gpuOut.max = DefaultMaxGPUPrice

\* A mapping whose only price is 80: the default price is 100.
C11_Witness ==
    /\ GPUDone
    /\ MappedPrices(gpuMappings) = {80}
    /\ gpuOut.max = DefaultMaxGPUPrice

\* The units of the request that have a GPU descriptor.
GPUUnits == {k \in DOMAIN gSpec : gSpec[k].GPU.present}

\* The unit price of unit k resolved from that unit's descriptor alone.
UnitPriceAlone(k) ==
    LET d == gSpec[k].GPU.carries
    IN  ResolvePrice(d.model, d.vram, d.interface, gpuMappings, gpuOut.max)

RECURSIVE SumOver(_, _)
SumOver(S, f) ==
    IF S = {} THEN 0
    ELSE LET k == CHOOSE x \in S : TRUE
         IN  f[k] + SumOver(S \ {k}, f)

\* C12: the total GPU cost is the sum, over the resource units that have
\* a GPU descriptor, of GPU unit count x repetition count x the unit price
\* resolved for that unit alone; with no GPU descriptor in the request the
\* total is exactly 0.
C12_TotalIsSumOfUnits ==
    GPUDone =>
        /\ gpuOut.total =
              SumOver(GPUUnits,
                      [k \in GPUUnits |->
                          gSpec[k].GPU.Units * gSpec[k].Count * UnitPriceAlone(k)])
        /\ GPUUnits = {} => gpuOut.total = 0

\* Two GPU units priced at different tiers (3 x 2 x 250 and 1 x 1 x 200).
C12_Witness ==
    /\ GPUDone
    /\ Len(gSpec) = 2
    /\ GPUUnits = {1, 2}
    /\ gpuOut.log[1].price = 250 /\ gSpec[1].Count = 2 /\ gSpec[1].GPU.Units = 3
    /\ gpuOut.log[2].price = 200 /\ gSpec[2].Count = 1
    /\ gpuOut.total = 1700

----------------------------------------------------------------------------
(* SpecDenom: HandleDenomLogic on bounded inputs *)

(* The float64 arguments of HandleDenomLogic and the ceiling             *)
(* amount.MustFloat64() are fixed-point integers.  A rate in micro-units  *)
(* (uakt per block, the normalized USD rate, the ceiling) v stands for    *)
(* v / RateUnit.  A rate in USD per block, some millionths of a USD, v    *)
(* stands for v / (RateUnit * UsdScale) USD.                              *)

\* Fractional digits carried by a rate in micro-units.
RateDigits == 6

RateUnit == Pow10(RateDigits)

\* Further fractional digits carried by a rate in USD.
UsdExtraDigits == 4

UsdScale == Pow10(UsdExtraDigits)

\* ratePerBlockUsd * 1000000, from USD-rate units to rate units.
TimesMillion(ratePerBlockUsd) == ratePerBlockUsd * (1000000 \div UsdScale)

IBCDenoms ==
    {"ibc/12C6A0C374171B595A0A9E18B83FA09D295FB1F2D8C6DAA3AC28683471752D84",
     "ibc/170C677610AC31DF0904FFE09CD3B5C657492170E7E52372E48756B71E56F2F1"}

\* Denominations a request may carry: the three the switch names, one it
\* does not, and none.
Denoms == {"uakt", "uusd", ""} \cup IBCDenoms

\* The error values HandleDenomLogic returns; "nil" for none.
ErrRateTooLow == "requested rate is too low"
ErrDenomNotSupported == "denom is not supported"

\* fmt.Sprintf("%.*f", precision, v): v rounded to `precision` fractional
\* digits; no "." at precision 0; digits beyond the resolution carried
\* are zeros.  (Inputs are chosen off the exact rounding ties.)
SprintfPrec(precision, v) ==
    IF precision >= RateDigits
    THEN NatText(v \div RateUnit) \o <<".">>
            \o PadRight(FracText(v % RateUnit, RateDigits), precision)
    ELSE LET drop    == Pow10(RateDigits - precision)
             rounded == (v + (drop \div 2)) \div drop
             whole   == NatText(rounded \div Pow10(precision))
         IN  IF precision = 0 THEN whole
             ELSE whole \o <<".">>
                    \o FracText(rounded % Pow10(precision), precision)

\* Mutant: the ceiling itself rejected (>= for >).
CompareWithCeiling_Strict(rate, precision, amount) ==
    IF rate >= amount
    THEN [err |-> ErrRateTooLow, price |-> <<>>,
          minExpected |-> SprintfPrec(precision, rate)]
    ELSE [err |-> "nil", price |-> SprintfPrec(precision, rate),
          minExpected |-> <<>>]

\* part_001:325-328 and 333-336: the comparison with the ceiling and the
\* rendering of the rate, the same in both supported branches.
CompareWithCeiling(rate, precision, amount) ==
    IF rate > amount
    THEN [err |-> ErrRateTooLow, price |-> <<>>,
          minExpected |-> SprintfPrec(precision, rate)]
    ELSE [err |-> "nil", price |-> SprintfPrec(precision, rate),
          minExpected |-> <<>>]

\* Mutant: the default branch prices the request as if it were in uakt.
HandleDenomLogic_DefaultUakt(denom, ratePerBlockUakt, ratePerBlockUsd, precision, amount) ==
    IF denom \in IBCDenoms
    THEN CompareWithCeiling(TimesMillion(ratePerBlockUsd), precision, amount)
    ELSE CompareWithCeiling(ratePerBlockUakt, precision, amount)

\* part_001:322-341
HandleDenomLogic(denom, ratePerBlockUakt, ratePerBlockUsd, precision, amount) ==
    IF denom = "uakt"
    THEN CompareWithCeiling(ratePerBlockUakt, precision, amount)
    ELSE IF denom \in IBCDenoms
    THEN LET ratePerBlockUsdNormalized == TimesMillion(ratePerBlockUsd)
         IN  CompareWithCeiling(ratePerBlockUsdNormalized, precision, amount)
    ELSE [err |-> ErrDenomNotSupported, price |-> <<>>, minExpected |-> <<>>]

\* Ceilings: 1, 1.4997, 1.497 and 1.7 micro-units.
Amounts == {RateUnit, RateUnit + 499700, RateUnit + 497000,
            RateUnit + 700000}

\* Rates in micro-units: each ceiling, the neighbours one unit of
\* resolution and one micro-unit either side of it, and 1.4996, 1.496
\* and 1.5.
UaktRates ==
    {r \in UNION {{a - RateUnit, a - 1, a, a + 1, a + RateUnit} : a \in Amounts} :
        r >= 0}
        \cup {RateUnit + 499600, RateUnit + 496000, RateUnit + 500000}

\* Rates in USD: 0.000001 USD per block, its neighbours one unit of
\* resolution either side, 0.00000149, 0.000002 and 0.000003 USD.
UsdRates == {UsdScale - 1, UsdScale, UsdScale + 1, UsdScale + 4900,
             2 * UsdScale, 3 * UsdScale}

Precisions == {1, 2, 6}

InitDenom ==
    /\ denomCall \in [denom : Denoms, ratePerBlockUakt : UaktRates,
                      ratePerBlockUsd : UsdRates, precision : Precisions,
                      amount : Amounts, done : {FALSE},
                      err : {"nil"}, price : {<<>>}, minExpected : {<<>>}]
    /\ CacheIdle
    /\ RaceIdle
    /\ GPUIdle
    /\ ResIdle
    /\ BidIdle
    /\ PureIdle

\* One call of HandleDenomLogic on the arguments drawn.
Decide ==
    /\ ~denomCall.done
    /\ LET c == denomCall
           r == HandleDenomLogic(c.denom, c.ratePerBlockUakt,
                                 c.ratePerBlockUsd, c.precision, c.amount)
       IN  denomCall' = [c EXCEPT !.done = TRUE, !.err = r.err,
                                  !.price = r.price,
                                  !.minExpected = r.minExpected]
    /\ UNCHANGED <<cacheVars, raceVars, gpuVars, resVars, bidVars, pureVars>>

NextDenom == Decide

SpecDenom == InitDenom /\ [][NextDenom]_vars

----------------------------------------------------------------------------
(* Claims about the bid decision, checked under SpecDenom *)

\* The rate the decision is about, in micro-units of the denomination.
DecidedRate(c) ==
    IF c.denom = "uakt" THEN c.ratePerBlockUakt
    ELSE c.ratePerBlockUsd * (1000000 \div UsdScale)

\* The value a decimal text denotes.
Denoted(text) ==
    LET dots  == {i \in DOMAIN text : text[i] = "."}
        dot   == IF dots = {} THEN Len(text) + 1 ELSE CHOOSE i \in dots : TRUE
    IN  DigitsVal(SubSeq(text, 1, dot - 1)) * RateUnit
            + DigitsVal(PadRight(SubSeq(text, dot + 1, Len(text)), RateDigits))

\* C13: for uakt and for the two stablecoin denominations the call is
\* rejected with "requested rate is too low" if and only if the rate
\* (ratePerBlockUakt, resp. ratePerBlockUsd x 1,000,000) strictly exceeds
\* the ceiling; otherwise it is accepted with a price.  A rate equal to
\* the ceiling is accepted, one micro-unit above it is rejected.
C13_RejectIffAboveCeiling ==
    (denomCall.done /\ denomCall.denom \in {"uakt"} \cup IBCDenoms) =>
        /\ (denomCall.err = ErrRateTooLow)
              <=> (DecidedRate(denomCall) > denomCall.amount)
        /\ (denomCall.err = "nil")
              <=> (DecidedRate(denomCall) <= denomCall.amount)
        /\ (denomCall.err = "nil") <=> (denomCall.price # <<>>)
        /\ DecidedRate(denomCall) = denomCall.amount => denomCall.err = "nil"
        /\ DecidedRate(denomCall) = denomCall.amount + RateUnit
              => denomCall.err = ErrRateTooLow

\* A stablecoin rate of 0.000001 USD per block against a ceiling of 1
\* micro-unit: equal, and accepted.
C13_Witness ==
    /\ denomCall.done
    /\ denomCall.denom \in IBCDenoms
    /\ denomCall.ratePerBlockUsd = UsdScale
    /\ denomCall.amount = RateUnit
    /\ denomCall.err = "nil"
    /\ denomCall.price # <<>>

\* C14: every denomination other than uakt and the two stablecoin
\* identifiers is rejected with "denom is not supported" and no price,
\* whatever the ceiling and the rates are.
C14_UnsupportedDenomRejected ==
    (denomCall.done /\ denomCall.denom \notin {"uakt"} \cup IBCDenoms) =>
        /\ denomCall.err = ErrDenomNotSupported
        /\ denomCall.price = <<>>

\* Denomination uusd with a rate far below the ceiling: rejected.
C14_Witness ==
    /\ denomCall.done
    /\ denomCall.denom = "uusd"
    /\ denomCall.ratePerBlockUakt < denomCall.amount
    /\ DecidedRate(denomCall) < denomCall.amount
    /\ denomCall.err = ErrDenomNotSupported
    /\ denomCall.price = <<>>

\* C16: whenever the call accepts, the price it reports - the rate
\* rendered at the requested precision - denotes a value that does not
\* exceed the ceiling.
C16_ReportedPriceWithinCeiling ==
    (denomCall.done /\ denomCall.err = "nil")
        => Denoted(denomCall.price) <= denomCall.amount

----------------------------------------------------------------------------
(* SpecRes: CalculateRequestedResources on bounded inputs *)

(* The float64 totals are fixed-point integers: CPURequested and         *)
(* MemoryRequested count thousandths (of a core, of a gigabyte).  The     *)
(* storage, endpoint and IP totals are int64 in the code and integers     *)
(* here.                                                                  *)

\* Thousandths per core and per gigabyte.
MilliUnit == 1000

\* 1024 * 1024 * 1024
GiB == 1073741824

\* 1024 * 1024
MiB == 1048576

NoCPU == [present |-> FALSE, Units |-> 0]

NoMemory == [present |-> FALSE, Quantity |-> 0]

CPUOf(milli) == [present |-> TRUE, Units |-> milli]

MemoryOf(bytes) == [present |-> TRUE, Quantity |-> bytes]

Attr(key, value) == [Key |-> key, Value |-> value]

StorageOf(name, attrs, bytes) ==
    [Name |-> name, Attributes |-> attrs, Quantity |-> bytes]

NoPrice == [Denom |-> "", Amount |-> 0]

\* A resource unit of the GroupSpec (dtypes.ResourceUnit).
Unit(count, cpu, memory, storage, endpoints, gpu, price) ==
    [Count |-> count, CPU |-> cpu, Memory |-> memory, Storage |-> storage,
     Endpoints |-> endpoints, GPU |-> gpu, Price |-> price]

ZeroRequests ==
    [CPURequested |-> 0, MemoryRequested |-> 0,
     EphemeralStorageRequested |-> 0, HDDPersStorageRequested |-> 0,
     SSDPersStorageRequested |-> 0, NVMePersStorageRequested |-> 0,
     IPsRequested |-> 0, EndpointsRequested |-> 0]

\* part_001:196-198: float64(cpuUnits) / 1000.0 * float64(count), in
\* thousandths of a core.
CPUCores(cpuUnits, count) == ((cpuUnits * MilliUnit) \div 1000) * count

\* part_001:202-204: float64(memoryBytes) / 2^30 * float64(count), in
\* thousandths of a gigabyte (exact for multiples of 2^27 bytes).
MemoryGB(memoryBytes, count) ==
    (((memoryBytes \div MiB) * MilliUnit) \div 1024) * count

\* part_001:209-217: the entry's name, overridden by the value of its
\* first "class" attribute.
RECURSIVE StorageClass(_, _, _)
StorageClass(name, attrs, k) ==
    IF k > Len(attrs) THEN name
    ELSE IF attrs[k].Key = "class" THEN attrs[k].Value
    ELSE StorageClass(name, attrs, k + 1)

\* Mutant: the class attribute ignored, the name always used.
AddStorage_NameOnly(result, storage, count) ==
    LET storageClass == storage.Name
        storageGB == storage.Quantity \div GiB
    IN  IF storageClass \in {"ephemeral", "default"}
        THEN [result EXCEPT !.EphemeralStorageRequested = @ + storageGB * count]
        ELSE IF storageClass = "beta1"
        THEN [result EXCEPT !.HDDPersStorageRequested = @ + storageGB * count]
        ELSE IF storageClass = "beta2"
        THEN [result EXCEPT !.SSDPersStorageRequested = @ + storageGB * count]
        ELSE IF storageClass = "beta3"
        THEN [result EXCEPT !.NVMePersStorageRequested = @ + storageGB * count]
        ELSE result

\* Mutant: the gigabytes of an entry rounded up instead of down.
AddStorage_RoundUp(result, storage, count) ==
    LET storageClass == StorageClass(storage.Name, storage.Attributes, 1)
        storageGB == (storage.Quantity + (GiB - 1)) \div GiB
    IN  IF storageClass \in {"ephemeral", "default"}
        THEN [result EXCEPT !.EphemeralStorageRequested = @ + storageGB * count]
        ELSE IF storageClass = "beta1"
        THEN [result EXCEPT !.HDDPersStorageRequested = @ + storageGB * count]
        ELSE IF storageClass = "beta2"
        THEN [result EXCEPT !.SSDPersStorageRequested = @ + storageGB * count]
        ELSE IF storageClass = "beta3"
        THEN [result EXCEPT !.NVMePersStorageRequested = @ + storageGB * count]
        ELSE result

\* part_001:208-231: one storage entry added to the totals.
AddStorage(result, storage, count) ==
    LET storageClass == StorageClass(storage.Name, storage.Attributes, 1)
        storageGB == storage.Quantity \div GiB
    IN  IF storageClass \in {"ephemeral", "default"}
        THEN [result EXCEPT !.EphemeralStorageRequested = @ + storageGB * count]
        ELSE IF storageClass = "beta1"
        THEN [result EXCEPT !.HDDPersStorageRequested = @ + storageGB * count]
        ELSE IF storageClass = "beta2"
        THEN [result EXCEPT !.SSDPersStorageRequested = @ + storageGB * count]
        ELSE IF storageClass = "beta3"
        THEN [result EXCEPT !.NVMePersStorageRequested = @ + storageGB * count]
        ELSE result

\* part_001:207-232
RECURSIVE AddStorages(_, _, _, _)
AddStorages(result, storages, k, count) ==
    IF k > Len(storages) THEN result
    ELSE AddStorages(AddStorage(result, storages[k], count), storages,
                     k + 1, count)

\* Mutant: endpoints and leased IPs counted once per entry, whatever the
\* repetition count of the unit.
AddEndpoints_NoCount(result, endpoints, k, count) ==
    [result EXCEPT
        !.EndpointsRequested = @ + Len(endpoints),
        !.IPsRequested =
            @ + Cardinality({i \in DOMAIN endpoints : endpoints[i] = "LEASED_IP"})]

\* part_001:234-239
RECURSIVE AddEndpoints(_, _, _, _)
AddEndpoints(result, endpoints, k, count) ==
    IF k > Len(endpoints) THEN result
    ELSE LET counted == [result EXCEPT !.EndpointsRequested = @ + count]
             leased == IF endpoints[k] = "LEASED_IP"
                       THEN [counted EXCEPT !.IPsRequested = @ + count]
                       ELSE counted
         IN  AddEndpoints(leased, endpoints, k + 1, count)

\* Mutant: the repetition count left out of the CPU total.
AddCPU_NoCount(result, ru) ==
    IF ru.CPU.present
    THEN [result EXCEPT !.CPURequested = @ + CPUCores(ru.CPU.Units, 1)]
    ELSE result

\* part_001:195-199
AddCPU(result, ru) ==
    IF ru.CPU.present
    THEN [result EXCEPT !.CPURequested = @ + CPUCores(ru.CPU.Units, ru.Count)]
    ELSE result

\* part_001:201-205
AddMemory(result, ru) ==
    IF ru.Memory.present
    THEN [result EXCEPT
            !.MemoryRequested = @ + MemoryGB(ru.Memory.Quantity, ru.Count)]
    ELSE result

\* part_001:193-240: the resource units from the k-th on.
RECURSIVE AddUnits(_, _, _)
AddUnits(result, units, k) ==
    IF k > Len(units) THEN result
    ELSE LET ru == units[k]
             withCPU == AddCPU(result, ru)
             withMem == AddMemory(withCPU, ru)
             withSto == AddStorages(withMem, ru.Storage, 1, ru.Count)
             withEnd == AddEndpoints(withSto, ru.Endpoints, 1, ru.Count)
         IN  AddUnits(withEnd, units, k + 1)

\* part_001:190-243
CalculateRequestedResources(units) == AddUnits(ZeroRequests, units, 1)

\* Storage entries: each recognised name; an unrecognised name; a class
\* attribute overriding the name (after another attribute, with a second
\* class attribute behind it, and with an unrecognised class).  Sizes are
\* just under 1 GiB and 1.5 GiB.
StorageEntries ==
    {StorageOf(n, <<>>, 3 * (GiB \div 2)) :
        n \in {"default", "ephemeral", "beta1", "beta2", "beta3", "data"}}
    \cup {StorageOf("beta1", <<>>, GiB - 1),
          StorageOf("data", <<Attr("persistent", "true"), Attr("class", "beta2")>>,
                    3 * (GiB \div 2)),
          StorageOf("default", <<Attr("class", "beta3")>>, 3 * (GiB \div 2)),
          StorageOf("beta1", <<Attr("class", "beta2"), Attr("class", "beta3")>>,
                    3 * (GiB \div 2)),
          StorageOf("default", <<Attr("class", "ram")>>, 3 * (GiB \div 2))}

StorageLists ==
    {<<e>> : e \in StorageEntries}
    \cup {<<StorageOf("default", <<>>, 3 * (GiB \div 2)),
            StorageOf("data", <<Attr("class", "beta1")>>, 3 * (GiB \div 2))>>}

EndpointLists == {<<>>, <<"SHARED_HTTP">>, <<"LEASED_IP", "RANDOM_PORT">>}

\* Resource units: those varying the CPU entry, the storage entries and
\* the endpoints, each at repetition counts 1 and 2.
ResUnits ==
    {Unit(c, cpu, MemoryOf(GiB \div 4), <<>>, <<>>, NoGPU, NoPrice) :
        c \in {1, 2}, cpu \in {NoCPU, CPUOf(100), CPUOf(1500)}}
    \cup {Unit(c, CPUOf(100), NoMemory, s, <<"SHARED_HTTP">>, NoGPU, NoPrice) :
            c \in {1, 2}, s \in StorageLists}
    \cup {Unit(c, NoCPU, MemoryOf(3 * (GiB \div 2)), <<>>, e, NoGPU, NoPrice) :
            c \in {1, 2}, e \in EndpointLists}

ResGroupSpecs == UNION {[1..n -> ResUnits] : n \in 0..MaxUnits}

InitRes ==
    /\ gSpec \in ResGroupSpecs
    /\ resOut = <<>>
    /\ gpuMappings = <<>>
    /\ gpuOut = <<>>
    /\ CacheIdle
    /\ RaceIdle
    /\ DenomIdle
    /\ BidIdle
    /\ PureIdle

\* One call of CalculateRequestedResources on the GroupSpec drawn.
CalcRes ==
    /\ resOut = <<>>
    /\ resOut' = [done |-> TRUE, result |-> CalculateRequestedResources(gSpec)]
    /\ UNCHANGED <<gpuVars, cacheVars, raceVars, denomVars, bidVars, pureVars>>

NextRes == CalcRes

SpecRes == InitRes /\ [][NextRes]_vars

----------------------------------------------------------------------------
(* Claims about resource aggregation, checked under SpecRes *)

ResDone == resOut # <<>>

\* The units of the request that have a CPU entry.
CPUUnitsOf(units) == {k \in DOMAIN units : units[k].CPU.present}

\* C19: the normalized CPU total is (the sum over resource units of
\* milli-cores x repetition count) / 1000, a unit without a CPU entry
\* contributing nothing.
C19_CPUTotal ==
    ResDone =>
        resOut.result.CPURequested * 1000 =
            MilliUnit * SumOver(CPUUnitsOf(gSpec),
                                [k \in CPUUnitsOf(gSpec) |->
                                    gSpec[k].CPU.Units * gSpec[k].Count])

\* 1500 milli-cores twice and a unit without CPU: 3 cores.
C19_Witness ==
    /\ ResDone
    /\ Len(gSpec) = 2
    /\ gSpec[1].CPU = CPUOf(1500) /\ gSpec[1].Count = 2
    /\ ~gSpec[2].CPU.present
    /\ resOut.result.CPURequested = 3 * MilliUnit

\* The class of a storage entry: its class attribute if it has one (the
\* first, if several), its name otherwise.
ClassOf(storage) ==
    LET at == {i \in DOMAIN storage.Attributes :
                  storage.Attributes[i].Key = "class"}
    IN  IF at = {} THEN storage.Name
        ELSE storage.Attributes[CHOOSE i \in at : \A j \in at : i <= j].Value

\* The storage entries of the request, as <<unit, entry>> index pairs,
\* whose class is one of `classes`.
EntriesOfClass(units, classes) ==
    {p \in UNION {{<<k, j>> : j \in DOMAIN units[k].Storage} : k \in DOMAIN units} :
        ClassOf(units[p[1]].Storage[p[2]]) \in classes}

\* floor(bytes / 2^30) x repetition count, summed over the entries of the
\* given classes.
ClassTotal(units, classes) ==
    SumOver(EntriesOfClass(units, classes),
            [p \in EntriesOfClass(units, classes) |->
                (units[p[1]].Storage[p[2]].Quantity \div GiB) * units[p[1]].Count])

\* C20: each storage entry adds floor(bytes / 2^30) x repetition count to
\* exactly one class total, chosen by its class attribute if present and
\* by its name otherwise (ephemeral or default -> ephemeral, beta1 -> HDD,
\* beta2 -> SSD, beta3 -> NVMe); an entry of any other class adds to no
\* total, and the call always returns.
C20_StorageTotals ==
    ResDone =>
        /\ resOut.result.EphemeralStorageRequested =
              ClassTotal(gSpec, {"ephemeral", "default"})
        /\ resOut.result.HDDPersStorageRequested = ClassTotal(gSpec, {"beta1"})
        /\ resOut.result.SSDPersStorageRequested = ClassTotal(gSpec, {"beta2"})
        /\ resOut.result.NVMePersStorageRequested = ClassTotal(gSpec, {"beta3"})

\* An entry named default with class beta3, twice, and an entry named
\* default with the unrecognised class ram: 2 GB of NVMe and nothing else.
C20_Witness ==
    /\ ResDone
    /\ Len(gSpec) = 2
    /\ gSpec[1].Count = 2
    /\ gSpec[1].Storage =
          <<StorageOf("default", <<Attr("class", "beta3")>>, 3 * (GiB \div 2))>>
    /\ gSpec[2].Storage =
          <<StorageOf("default", <<Attr("class", "ram")>>, 3 * (GiB \div 2))>>
    /\ resOut.result.NVMePersStorageRequested = 2
    /\ resOut.result.EphemeralStorageRequested = 0
    /\ resOut.result.HDDPersStorageRequested = 0
    /\ resOut.result.SSDPersStorageRequested = 0

----------------------------------------------------------------------------
(* Special accounts and the whitelist *)

(* A line of text (a whitelist line, the value of WHITELIST_URL) is a     *)
(* sequence of tokens; the tokens " " and "\"" are a space and a double   *)
(* quote, any other token is a run of other characters.                   *)

SpecialAccounts ==
    {"akash1fxa9ss3dg6nqyz8aluyaa6svypgprk5tw9fa4q",
     "akash1fhe3uk7d95vvr69pna7cxmwa8777as46uyxcz8"}

\* Mutant: the list of special accounts emptied.
SpecialPricing_None(owner) == FALSE

\* whitelist.go:14-20
SpecialPricing(owner) == owner \in SpecialAccounts

\* shouldFetchWhitelist: 10*time.Minute
WhitelistFreshMinutes == 10

\* strings.Trim(s, cutset) / strings.TrimSpace(s): the tokens of `cut`
\* removed from both ends.
RECURSIVE TrimTokens(_, _)
TrimTokens(s, cut) ==
    IF s = <<>> THEN s
    ELSE IF s[1] \in cut THEN TrimTokens(Tail(s), cut)
    ELSE IF s[Len(s)] \in cut THEN TrimTokens(SubSeq(s, 1, Len(s) - 1), cut)
    ELSE s

\* The text of a run of tokens without spaces or quotes: "" when empty,
\* the single token otherwise.
TextOf(s) == IF s = <<>> THEN "" ELSE s[1]

WhitelistFile(lines, age) == [exists |-> TRUE, lines |-> lines, age |-> age]

\* Mutant: an existing file never fetched again, whatever its age.
shouldFetchWhitelist_AbsentOnly(file) == ~file.exists

\* whitelist.go:46-52
shouldFetchWhitelist(file) == ~file.exists \/ file.age > WhitelistFreshMinutes

\* What an HTTP GET of the whitelist can come back with.
WLNetErr == [kind |-> "neterr", status |-> 0, body |-> <<>>]
WLStatus(code) == [kind |-> "http", status |-> code, body |-> <<>>]
WLReadErr == [kind |-> "readerr", status |-> 200, body |-> <<>>]
WLBody(lines) == [kind |-> "http", status |-> 200, body |-> lines]
WLNone == [kind |-> "none", status |-> 0, body |-> <<>>]

\* whitelist.go:55-72
fetchWhitelist(resp, file, w) ==
    IF resp.kind = "neterr" THEN [err |-> TRUE, file |-> file]
    ELSE IF resp.status # 200 THEN [err |-> TRUE, file |-> file]
    ELSE IF resp.kind = "readerr" THEN [err |-> TRUE, file |-> file]
    ELSE CASE w = "ok" -> [err |-> FALSE, file |-> WhitelistFile(resp.body, 0)]
           [] w = "open_error" -> [err |-> TRUE, file |-> file]
           [] w = "write_error" -> [err |-> TRUE, file |-> WhitelistFile(<<>>, 0)]

\* whitelist.go:75-94
verifyInWhitelist(file, owner) ==
    IF ~file.exists THEN "open error"
    ELSE IF \E i \in DOMAIN file.lines :
                TextOf(TrimTokens(file.lines[i], {" "})) = owner
    THEN "nil"
    ELSE "is not whitelisted"

\* whitelist.go:23-43.  envOwner is os.Getenv("AKASH_OWNER").  The result,
\* with whether the list was fetched, whether the file was consulted, and
\* the file the check leaves.
CheckWhitelist(owner, whitelistURL, envOwner, file, resp, w) ==
    IF TrimTokens(whitelistURL, {"\""}) = <<>>
    THEN [err |-> "nil", fetched |-> FALSE, consulted |-> FALSE, file |-> file]
    ELSE LET got == IF shouldFetchWhitelist(file)
                    THEN fetchWhitelist(resp, file, w)
                    ELSE [err |-> FALSE, file |-> file]
         IN  IF got.err
             THEN [err |-> "error fetching whitelist",
                   fetched |-> shouldFetchWhitelist(file),
                   consulted |-> FALSE, file |-> got.file]
             ELSE [err |-> verifyInWhitelist(got.file, envOwner),
                   fetched |-> shouldFetchWhitelist(file),
                   consulted |-> TRUE, file |-> got.file]

NoCheck == [err |-> "nil", fetched |-> FALSE, consulted |-> FALSE]

----------------------------------------------------------------------------
(* Price targets, monthly cost and per-block rates *)

(* Price targets are whole cents per unit and month; a monthly cost is a  *)
(* whole number of cost units, CostUnit of them to the USD, so that the   *)
(* product of a total in thousandths and a target in cents is one.        *)

\* Cents per USD.
CentUnit == 100

CostUnit == MilliUnit * CentUnit

\* The default price targets (1.60, 0.80, 0.02, 0.01, 0.03, 0.04, 0.05 and
\* 5.00 USD), in cents.
DefaultCPUTarget == 160
DefaultMemoryTarget == 80
DefaultHDEphemeralTarget == 2
DefaultHDPersHDDTarget == 1
DefaultHDPersSSDTarget == 3
DefaultHDPersNVMETarget == 4
DefaultEndpointTarget == 5
DefaultIPTarget == 500

\* AverageBlockTimeSeconds = 6.117 and DaysPerMonth = 30.437, in
\* thousandths.
AverageBlockTimeMillis == 6117
DaysPerMonthMillis == 30437

\* BlocksPerMonth = (60 / 6.117) * 24 * 60 * 30.437 as the fraction
\* BlocksNum / BlocksDen in lowest terms (about 429909.6).
BlocksNum == (60 \div 3) * 24 * 60 * DaysPerMonthMillis

BlocksDen == AverageBlockTimeMillis \div 3

\* The value of an environment variable: unset, a number, or a text that
\* is not a number.
EnvUnset == [set |-> FALSE, valid |-> FALSE, val |-> 0]
EnvNumber(v) == [set |-> TRUE, valid |-> TRUE, val |-> v]
EnvGarbage == [set |-> TRUE, valid |-> FALSE, val |-> 0]

\* part_001:246-253
GetEnvFloat(envVar, defaultValue) ==
    IF envVar.set /\ envVar.valid THEN envVar.val ELSE defaultValue

\* part_001:263-273.  env.GPU is what ParseGPUPriceMappings made of
\* PRICE_TARGET_GPU_MAPPINGS.
SetPriceTargets(env) ==
    [CPUTarget |-> GetEnvFloat(env.PRICE_TARGET_CPU, DefaultCPUTarget),
     MemoryTarget |-> GetEnvFloat(env.PRICE_TARGET_MEMORY, DefaultMemoryTarget),
     HDEphemeralTarget |->
        GetEnvFloat(env.PRICE_TARGET_HD_EPHEMERAL, DefaultHDEphemeralTarget),
     HDPersHDDTarget |->
        GetEnvFloat(env.PRICE_TARGET_HD_PERS_HDD, DefaultHDPersHDDTarget),
     HDPersSSDTarget |->
        GetEnvFloat(env.PRICE_TARGET_HD_PERS_SSD, DefaultHDPersSSDTarget),
     HDPersNVMETarget |->
        GetEnvFloat(env.PRICE_TARGET_HD_PERS_NVME, DefaultHDPersNVMETarget),
     EndpointTarget |-> GetEnvFloat(env.PRICE_TARGET_ENDPOINT, DefaultEndpointTarget),
     IPTarget |-> GetEnvFloat(env.PRICE_TARGET_IP, DefaultIPTarget),
     GPUMappings |-> env.GPU.mappings]

\* Mutant: the IP term left out of the sum.
CalculateTotalCostUsdTarget_NoIP(resourceRequests, priceTargets) ==
    resourceRequests.CPURequested * priceTargets.CPUTarget
    + resourceRequests.MemoryRequested * priceTargets.MemoryTarget
    + MilliUnit *
        (resourceRequests.EphemeralStorageRequested * priceTargets.HDEphemeralTarget
         + resourceRequests.HDDPersStorageRequested * priceTargets.HDPersHDDTarget
         + resourceRequests.SSDPersStorageRequested * priceTargets.HDPersSSDTarget
         + resourceRequests.NVMePersStorageRequested * priceTargets.HDPersNVMETarget
         + resourceRequests.EndpointsRequested * priceTargets.EndpointTarget)

\* part_001:277-305, in cost units.
CalculateTotalCostUsdTarget(resourceRequests, priceTargets) ==
    resourceRequests.CPURequested * priceTargets.CPUTarget
    + resourceRequests.MemoryRequested * priceTargets.MemoryTarget
    + MilliUnit *
        (resourceRequests.EphemeralStorageRequested * priceTargets.HDEphemeralTarget
         + resourceRequests.HDDPersStorageRequested * priceTargets.HDPersHDDTarget
         + resourceRequests.SSDPersStorageRequested * priceTargets.HDPersSSDTarget
         + resourceRequests.NVMePersStorageRequested * priceTargets.HDPersNVMETarget
         + resourceRequests.EndpointsRequested * priceTargets.EndpointTarget
         + resourceRequests.IPsRequested * priceTargets.IPTarget)

\* Quotient and remainder of a * b by c for t = <<a, b, c>>, without
\* forming the product (c < 2^30, quotient < 2^31): by halving b.
QuoRemOf[t \in Nat \X Nat \X Nat] ==
    LET a == t[1]
        b == t[2]
        c == t[3]
    IN  IF b = 0 THEN [q |-> 0, r |-> 0]
        ELSE LET h  == QuoRemOf[<<a, b \div 2, c>>]
                 q2 == 2 * h.q + ((2 * h.r) \div c)
                 r2 == (2 * h.r) % c
             IN  IF b % 2 = 0 THEN [q |-> q2, r |-> r2]
                 ELSE [q |-> q2 + (a \div c) + ((r2 + (a % c)) \div c),
                       r |-> (r2 + (a % c)) % c]

QuoRem(a, b, c) == QuoRemOf[<<a, b, c>>]

\* Mutant: the conversion from AKT to uakt (x 1,000,000) left out.
CalculateBlockRates_NoMicro(totalCostUsdTarget, usdPerAkt, precision) ==
    LET totalCostUaktTarget ==
            QuoRem(totalCostUsdTarget, PriceUnit \div CostUnit, usdPerAkt).q
        perBlock == QuoRem(totalCostUaktTarget, BlocksDen, BlocksNum)
        ratePerBlockUakt ==
            perBlock.q * RateUnit + QuoRem(perBlock.r, RateUnit, BlocksNum).q
        ratePerBlockUsd ==
            QuoRem(totalCostUsdTarget,
                   (RateUnit \div CostUnit) * UsdScale * BlocksDen,
                   BlocksNum).q
    IN  [finite |-> usdPerAkt # 0,
         ratePerBlockUakt |-> IF usdPerAkt = 0 THEN "+Inf" ELSE ratePerBlockUakt,
         ratePerBlockUsd |-> ratePerBlockUsd,
         totalCostUaktStr |-> <<>>]

\* part_001:308-319.  The cost is in cost units, usdPerAkt in price units;
\* the monthly total in uakt is carried in whole uakt, the rate in uakt
\* in rate units and the rate in USD in USD-rate units.  A division by a
\* zero usdPerAkt gives +Inf, or NaN for a zero cost.
CalculateBlockRates(totalCostUsdTarget, usdPerAkt, precision) ==
    LET totalCostUaktTarget ==
            QuoRem(totalCostUsdTarget, (1000000 \div CostUnit) * PriceUnit,
                   usdPerAkt).q
        perBlock == QuoRem(totalCostUaktTarget, BlocksDen, BlocksNum)
        ratePerBlockUakt ==
            perBlock.q * RateUnit + QuoRem(perBlock.r, RateUnit, BlocksNum).q
        ratePerBlockUsd ==
            QuoRem(totalCostUsdTarget,
                   (RateUnit \div CostUnit) * UsdScale * BlocksDen,
                   BlocksNum).q
    IN  IF usdPerAkt = 0
        THEN LET inf == IF totalCostUsdTarget = 0 THEN "NaN" ELSE "+Inf"
             IN  [finite |-> FALSE,
                  ratePerBlockUakt |-> inf, ratePerBlockUsd |-> ratePerBlockUsd,
                  totalCostUaktStr |-> <<inf, "uakt">>]
        ELSE [finite |-> TRUE,
              ratePerBlockUakt |-> ratePerBlockUakt,
              ratePerBlockUsd |-> ratePerBlockUsd,
              totalCostUaktStr |-> Append(SprintfPrec(16, ratePerBlockUakt), "uakt")]

----------------------------------------------------------------------------
(* SpecBid: runs of the entry point RequestToBidPrice *)

NilGSpec == [nil |-> TRUE, Resources |-> <<>>]

GSpecOf(units) == [nil |-> FALSE, Resources |-> units]

PriceOf(denom, amount) == [Denom |-> denom, Amount |-> amount]

\* The errors RequestToBidPrice returns; "nil" for none.  A failed parse
\* of the GPU mappings ends the process in SetPriceTargets (log.Fatalf).
ErrNoOwner == "request owner is not specified"
ErrWhitelist == "whitelist check failed"
ErrAKTPrice == "error getting AKT price"
ErrPriceMissing == "price information is missing or incomplete"
ErrNilGSpec == "GroupSpec is nil in the request"
FatalGPUMappings == "fatal: Error parsing GPU mappings"

\* specialRate := "1.00"
SpecialRate == <<"1", ".", "0", "0">>

\* What a run that stops before any step has done: nothing printed, no
\* whitelist check, no call of GetAKTPrice, both files as they were.
NoBid(c, file) ==
    [err |-> "nil", special |-> FALSE, printed |-> <<>>, priced |-> FALSE,
     check |-> NoCheck, feed |-> NoCall,
     denom |-> "", amount |-> 0, precision |-> 0,
     totalCostUsdTarget |-> 0, finite |-> TRUE,
     ratePerBlockUakt |-> 0, ratePerBlockUsd |-> 0,
     cache |-> c, whitelist |-> file]

\* part_001:344-410.  env: the environment variables; io: the answers of
\* the whitelist source, of the price sources and of the file system to
\* the calls the run makes; c, file: the price cache and the whitelist
\* file as the run finds them.  The result, with what the run did on the
\* way and the two files as it leaves them.
RequestToBidPrice(request, env, io, c, file) ==
    LET owner == request.Owner
        has == ~request.GSpec.nil /\ Len(request.GSpec.Resources) > 0
        denom == IF has THEN request.GSpec.Resources[1].Price.Denom ELSE ""
        amount == IF has THEN request.GSpec.Resources[1].Price.Amount ELSE 0
        started == [NoBid(c, file) EXCEPT !.denom = denom, !.amount = amount]
        check == CheckWhitelist(owner, env.WHITELIST_URL, env.AKASH_OWNER,
                                file, io.wlResp, io.wlWrite)
        checked == [started EXCEPT
                      !.check = [f \in DOMAIN NoCheck |-> check[f]],
                      !.whitelist = check.file]
        feed == GetAKTPrice(c, io.readOk, io.primary, io.fallback, io.w)
        usdPerAkt == feed.price
        fed == [checked EXCEPT !.feed = Report(feed), !.cache = feed.cache]
        precision == IF request.PricePrecision = 0 THEN 6
                     ELSE request.PricePrecision
        units == request.GSpec.Resources
        priceTargets == SetPriceTargets(env)
        maxGPUPrice == MaxGPUPrice(priceTargets.GPUMappings)
        totalGPUPrice ==
            CalculateTotalGPUPrice(units, priceTargets.GPUMappings,
                                   maxGPUPrice).total
        resourceRequests == CalculateRequestedResources(units)
        totalCostUsdTarget ==
            CalculateTotalCostUsdTarget(resourceRequests, priceTargets)
                + totalGPUPrice * CostUnit
        rates == CalculateBlockRates(totalCostUsdTarget, usdPerAkt, precision)
    IN  IF owner = "" THEN [started EXCEPT !.err = ErrNoOwner]
        ELSE IF SpecialPricing(owner)
        THEN [started EXCEPT !.special = TRUE, !.printed = SpecialRate]
        ELSE IF check.err # "nil" THEN [checked EXCEPT !.err = ErrWhitelist]
        ELSE IF feed.err THEN [fed EXCEPT !.err = ErrAKTPrice]
        ELSE IF denom = "" \/ amount = 0
        THEN [fed EXCEPT !.err = ErrPriceMissing]
        ELSE IF request.GSpec.nil
        THEN [fed EXCEPT !.err = ErrNilGSpec, !.precision = precision]
        ELSE IF env.GPU.err
        THEN [fed EXCEPT !.err = FatalGPUMappings, !.precision = precision]
        ELSE [fed EXCEPT !.priced = TRUE, !.precision = precision,
                         !.printed = rates.totalCostUaktStr,
                         !.totalCostUsdTarget = totalCostUsdTarget,
                         !.finite = rates.finite,
                         !.ratePerBlockUakt = rates.ratePerBlockUakt,
                         !.ratePerBlockUsd = rates.ratePerBlockUsd]

\* Owners: none, a special account, and two ordinary accounts.
BidOwners ==
    {"", "akash1fxa9ss3dg6nqyz8aluyaa6svypgprk5tw9fa4q", "akash1alice",
     "akash1bob"}

\* The price on the first resource unit: none; a denomination without an
\* amount and an amount without a denomination; ceilings of 1000 and of
\* 0.1 uakt; a ceiling in a denomination that is not supported.
BidPrices ==
    {NoPrice, PriceOf("uakt", 0), PriceOf("", 1000 * RateUnit),
     PriceOf("uakt", 1000 * RateUnit), PriceOf("uakt", RateUnit \div 10),
     PriceOf("uusd", 1000 * RateUnit)}

\* An exchange rate of 2.50 USD per AKT.
Rate250 == (5 * PriceUnit) \div 2

\* 100 milli-cores, 256 MiB of memory, 1.5 GiB of default storage and one
\* endpoint.
SmallUnit(price) ==
    Unit(1, CPUOf(100), MemoryOf(GiB \div 4),
         <<StorageOf("default", <<>>, 3 * (GiB \div 2))>>, <<"SHARED_HTTP">>,
         NoGPU, price)

\* One a100 80Gi sxm4 GPU with a core and a leased IP.
GPUUnit ==
    Unit(1, CPUOf(1500), NoMemory, <<>>, <<"LEASED_IP">>,
         GPUOf(1, [model |-> "a100", vram |-> "80Gi", interface |-> "sxm4"]),
         NoPrice)

\* Every resource present with quantity zero, and storage short of 1 GiB.
ZeroUnit(price) ==
    Unit(2, CPUOf(0), MemoryOf(0),
         <<StorageOf("beta2", <<>>, GiB \div 4)>>, <<>>, NoGPU, price)

\* 1.5 cores, 1.5 GiB of memory, 1.5 GiB of storage of each class, a
\* leased IP and a random port, all twice.
RichUnit(price) ==
    Unit(2, CPUOf(1500), MemoryOf(3 * (GiB \div 2)),
         <<StorageOf("ephemeral", <<>>, 3 * (GiB \div 2)),
           StorageOf("beta1", <<>>, 3 * (GiB \div 2)),
           StorageOf("data", <<Attr("class", "beta2")>>, 3 * (GiB \div 2)),
           StorageOf("beta3", <<>>, 3 * (GiB \div 2))>>,
         <<"LEASED_IP", "RANDOM_PORT">>, NoGPU, price)

BidGSpecs ==
    {NilGSpec, GSpecOf(<<>>)}
        \cup {GSpecOf(<<SmallUnit(p)>>) : p \in BidPrices}
        \cup {GSpecOf(<<SmallUnit(PriceOf("uakt", 1000 * RateUnit)), GPUUnit>>),
              GSpecOf(<<ZeroUnit(PriceOf("uakt", 1000 * RateUnit))>>),
              GSpecOf(<<RichUnit(PriceOf("uakt", 1000 * RateUnit))>>)}

\* The documented end-to-end scenario: 100 milli-cores, 268,435,456 bytes
\* of memory and of ephemeral storage, one endpoint, no GPU, a ceiling in
\* uakt, precision 18.
ScenarioAUnit ==
    Unit(1, CPUOf(100), MemoryOf(GiB \div 4),
         <<StorageOf("ephemeral", <<>>, GiB \div 4)>>, <<"SHARED_HTTP">>,
         NoGPU, PriceOf("uakt", 1000 * RateUnit))

ScenarioA ==
    [Owner |-> "akash1alice", GSpec |-> GSpecOf(<<ScenarioAUnit>>),
     PricePrecision |-> 18]

Requests ==
    [Owner : BidOwners, GSpec : BidGSpecs, PricePrecision : {0, 2}]
        \cup {ScenarioA}

\* WHITELIST_URL: unset, a pair of quotes, and a quoted URL.
WhitelistURLs ==
    {<<>>, <<"\"", "\"">>, <<"\"", "https://example.com/whitelist", "\"">>}

\* AKASH_OWNER
EnvOwners == {"akash1alice", "akash1bob"}

\* Whitelists: alice on a line with spaces around; bob alone.
WhitelistBodies ==
    {<< <<"akash1carol">>, <<" ", "akash1alice", " ">> >>, << <<"akash1bob">> >>}

WLResponses ==
    {WLNetErr, WLStatus(404), WLReadErr} \cup {WLBody(b) : b \in WhitelistBodies}

\* The price sources' answers in SpecBid.
BidResponses == {NetErr, NoField, PriceJSON("price", Rate250)}

\* The price-target variables: all unset; PRICE_TARGET_CPU=2.00 with a
\* PRICE_TARGET_MEMORY that is not a number.
TargetEnvs ==
    LET unset == [v \in {"PRICE_TARGET_CPU", "PRICE_TARGET_MEMORY",
                         "PRICE_TARGET_HD_EPHEMERAL", "PRICE_TARGET_HD_PERS_HDD",
                         "PRICE_TARGET_HD_PERS_SSD", "PRICE_TARGET_HD_PERS_NVME",
                         "PRICE_TARGET_ENDPOINT", "PRICE_TARGET_IP"} |-> EnvUnset]
    IN  {unset,
         [unset EXCEPT !.PRICE_TARGET_CPU = EnvNumber(200),
                       !.PRICE_TARGET_MEMORY = EnvGarbage]}

\* What ParseGPUPriceMappings makes of PRICE_TARGET_GPU_MAPPINGS: an
\* error, no mapping, or a100=200.
GPUEnvs ==
    {[err |-> TRUE, mappings |-> <<>>], [err |-> FALSE, mappings |-> <<>>],
     [err |-> FALSE, mappings |-> (<<"a100">> :> 200)]}

EnvOf(url, envOwner, targets, gpu) ==
    targets @@ [WHITELIST_URL |-> url, AKASH_OWNER |-> envOwner, GPU |-> gpu]

IOOf(wlResp, wlWrite, readOk, primary, fallback, w) ==
    [wlResp |-> wlResp, wlWrite |-> wlWrite, readOk |-> readOk,
     primary |-> primary, fallback |-> fallback, w |-> w]

InitBid ==
    /\ cache \in {NoFile} \cup {File(FormatF(Rate250), a) : a \in {1, FreshMinutes + 1}}
    /\ whitelist \in
          {NoWhitelist}
              \cup {WhitelistFile(b, a) :
                      b \in WhitelistBodies,
                      a \in {1, WhitelistFreshMinutes + 1}}
              \cup {WhitelistFile(<< <<"akash1bob">> >>, WhitelistFreshMinutes)}
    /\ bidOut = <<>>
    /\ prevBid = <<>>
    /\ runs = 0
    /\ calls = 0
    /\ last = NoCall
    /\ RaceIdle
    /\ GPUIdle
    /\ ResIdle
    /\ DenomIdle
    /\ PureIdle

\* One whole run of RequestToBidPrice.  The environment's variables and
\* answers are drawn only for the steps the run reaches.
Bid ==
    /\ bidOut = <<>>
    /\ \E request \in Requests :
       LET has == ~request.GSpec.nil /\ Len(request.GSpec.Resources) > 0
           reach1 == request.Owner # "" /\ ~SpecialPricing(request.Owner)
       IN
       \E url \in (IF reach1 THEN WhitelistURLs ELSE {<<>>}) :
       LET urlSet == TrimTokens(url, {"\""}) # <<>>
           fetches == urlSet /\ shouldFetchWhitelist(whitelist)
       IN
       \E envOwner \in (IF urlSet THEN EnvOwners ELSE {""}) :
       \E wlResp \in (IF fetches THEN WLResponses ELSE {WLNone}) :
       \E wlWrite \in (IF wlResp.kind = "http" /\ wlResp.status = 200
                       THEN WriteOutcomes ELSE {"ok"}) :
       LET check == CheckWhitelist(request.Owner, url, envOwner, whitelist,
                                   wlResp, wlWrite)
           reach2 == reach1 /\ check.err = "nil"
       IN
       \E readOk \in (IF reach2 /\ ~Expired(cache) THEN BOOLEAN ELSE {TRUE}) :
       \E primary \in (IF reach2 /\ readCachedPrice(cache, readOk).err
                       THEN BidResponses ELSE {NoResp}) :
       \E fallback \in (IF primary # NoResp /\ fetchPriceFromURL(primary).err
                        THEN BidResponses ELSE {NoResp}) :
       \E w \in (IF primary # NoResp
                      /\ ~fetchPriceFromAPI(primary, fallback).res.err
                 THEN WriteOutcomes ELSE {"ok"}) :
       LET feed == GetAKTPrice(cache, readOk, primary, fallback, w)
           reach3 == /\ reach2
                     /\ ~feed.err
                     /\ has
                     /\ request.GSpec.Resources[1].Price.Denom # ""
                     /\ request.GSpec.Resources[1].Price.Amount # 0
       IN
       \E targets \in (IF reach3 THEN TargetEnvs
                       ELSE {CHOOSE t \in TargetEnvs :
                                ~t.PRICE_TARGET_CPU.set}) :
       \E gpu \in (IF reach3 THEN GPUEnvs
                   ELSE {[err |-> FALSE, mappings |-> <<>>]}) :
            LET env == EnvOf(url, envOwner, targets, gpu)
                io == IOOf(wlResp, wlWrite, readOk, primary, fallback, w)
                out == RequestToBidPrice(request, env, io, cache, whitelist)
            IN  /\ bidOut' = [request |-> request, env |-> env, io |-> io,
                              cacheBefore |-> cache,
                              whitelistBefore |-> whitelist, out |-> out]
                /\ cache' = out.cache
                /\ whitelist' = out.whitelist
    /\ runs' = runs + 1
    /\ UNCHANGED <<calls, last, prevBid, raceVars, gpuVars, resVars, denomVars,
                   pureVars>>

NextBid == Bid

SpecBid == InitBid /\ [][NextBid]_vars

----------------------------------------------------------------------------
(* Claims about the entry point, checked under SpecBid *)

BidDone == bidOut # <<>>

SupportedDenoms == {"uakt"} \cup IBCDenoms

\* The run computed a per-block rate that is a number (not +Inf or NaN).
ComputedRate == bidOut.out.priced /\ bidOut.out.finite

\* The rate the Bid Decision would compare with the ceiling.
RateToDecide ==
    IF bidOut.out.denom = "uakt" THEN bidOut.out.ratePerBlockUakt
    ELSE bidOut.out.ratePerBlockUsd * (1000000 \div UsdScale)

\* C15: every run that obtains an exchange rate and computes a per-block
\* rate passes it through the Bid Decision: the run returns an error
\* whenever the denomination is unsupported or the computed rate exceeds
\* the ceiling, and returns success only with a price that was accepted.
C15_RunEndsInBidDecision ==
    (BidDone /\ ComputedRate) =>
        /\ bidOut.out.denom \notin SupportedDenoms => bidOut.out.err # "nil"
        /\ (bidOut.out.denom \in SupportedDenoms
                /\ RateToDecide > bidOut.out.amount)
              => bidOut.out.err # "nil"
        /\ bidOut.out.err = "nil"
              => /\ bidOut.out.denom \in SupportedDenoms
                 /\ RateToDecide <= bidOut.out.amount

\* The request carries no denomination or a zero ceiling amount (a nil
\* group spec and one without resource units included).
PriceInfoMissing ==
    LET g == bidOut.request.GSpec
    IN  \/ g.nil
        \/ g.Resources = <<>>
        \/ g.Resources[1].Price.Denom = ""
        \/ g.Resources[1].Price.Amount = 0

\* C17: whenever the request carries no denomination or a zero ceiling
\* amount, the run aborts with the "price information is missing" error
\* and produces no price.
C17_MissingPriceAborts ==
    (BidDone /\ PriceInfoMissing) =>
        /\ bidOut.out.err = ErrPriceMissing
        /\ bidOut.out.printed = <<>>

\* The run of the same request on the same files under environment e and
\* answers i.
RunWith(e, i) ==
    RequestToBidPrice(bidOut.request, e, i, bidOut.cacheBefore,
                      bidOut.whitelistBefore)

LeasedOf(unit) ==
    {i \in DOMAIN unit.Endpoints : unit.Endpoints[i] = "LEASED_IP"}

\* C21: the endpoint total is the sum over resource units of (number of
\* endpoint entries x repetition count), the IP total the sum over
\* resource units of (number of leased-IP entries x repetition count), and
\* the IP total never exceeds the endpoint total.
C21_EndpointAndIPTotals ==
    ResDone =>
        /\ resOut.result.EndpointsRequested =
              SumOver(DOMAIN gSpec,
                      [k \in DOMAIN gSpec |->
                          Len(gSpec[k].Endpoints) * gSpec[k].Count])
        /\ resOut.result.IPsRequested =
              SumOver(DOMAIN gSpec,
                      [k \in DOMAIN gSpec |->
                          Cardinality(LeasedOf(gSpec[k])) * gSpec[k].Count])
        /\ resOut.result.IPsRequested <= resOut.result.EndpointsRequested

\* A leased IP and a random port, twice, and a shared HTTP endpoint once:
\* 5 endpoints, 2 IPs.
C21_Witness ==
    /\ ResDone
    /\ Len(gSpec) = 2
    /\ gSpec[1].Endpoints = <<"LEASED_IP", "RANDOM_PORT">> /\ gSpec[1].Count = 2
    /\ gSpec[2].Endpoints = <<"SHARED_HTTP">> /\ gSpec[2].Count = 1
    /\ resOut.result.EndpointsRequested = 5
    /\ resOut.result.IPsRequested = 2

\* The units of the request of the run.
BidUnits == bidOut.request.GSpec.Resources

\* The price target in force for a variable: its value when it is set to
\* a number, the default otherwise.
TargetOf(name, default) ==
    IF bidOut.env[name].set /\ bidOut.env[name].valid
    THEN bidOut.env[name].val ELSE default

\* The requested quantities of the run: cores and gigabytes of memory in
\* thousandths, gigabytes of storage per class, endpoints and IPs.
QuantitiesOf(units) ==
    [cpu |-> SumOver(CPUUnitsOf(units),
                     [k \in CPUUnitsOf(units) |->
                         units[k].CPU.Units * units[k].Count]),
     memory |-> SumOver({k \in DOMAIN units : units[k].Memory.present},
                        [k \in DOMAIN units |->
                            (((units[k].Memory.Quantity \div MiB) * MilliUnit)
                                \div 1024) * units[k].Count]),
     ephemeral |-> ClassTotal(units, {"ephemeral", "default"}),
     hdd |-> ClassTotal(units, {"beta1"}),
     ssd |-> ClassTotal(units, {"beta2"}),
     nvme |-> ClassTotal(units, {"beta3"}),
     endpoints |-> SumOver(DOMAIN units,
                           [k \in DOMAIN units |->
                               Len(units[k].Endpoints) * units[k].Count]),
     ips |-> SumOver(DOMAIN units,
                     [k \in DOMAIN units |->
                         Cardinality(LeasedOf(units[k])) * units[k].Count])]

\* The GPU cost of the run, in whole USD.
GPUCostOf(units, m) ==
    SumOver({k \in DOMAIN units : units[k].GPU.present},
            [k \in DOMAIN units |->
                units[k].GPU.Units * units[k].Count
                    * ResolvePrice(units[k].GPU.carries.model,
                                   units[k].GPU.carries.vram,
                                   units[k].GPU.carries.interface,
                                   m, MaxGPUPrice(m))])

\* C22: the monthly USD cost handed to rate conversion is cpu_cores x
\* cpu_target + memory_gb x memory_target + the sum over the four storage
\* classes of class_gb x class_target + endpoints x endpoint_target + ips x
\* ip_target + gpu_cost, exactly; it is 0 when every requested quantity
\* is 0.
C22_MonthlyCostIsWeightedSum ==
    (BidDone /\ bidOut.out.priced) =>
        LET q == QuantitiesOf(BidUnits)
            gpuCost == GPUCostOf(BidUnits, bidOut.env.GPU.mappings)
        IN  /\ bidOut.out.totalCostUsdTarget =
                  q.cpu * TargetOf("PRICE_TARGET_CPU", DefaultCPUTarget)
                  + q.memory * TargetOf("PRICE_TARGET_MEMORY", DefaultMemoryTarget)
                  + MilliUnit *
                      (q.ephemeral * TargetOf("PRICE_TARGET_HD_EPHEMERAL",
                                              DefaultHDEphemeralTarget)
                       + q.hdd * TargetOf("PRICE_TARGET_HD_PERS_HDD",
                                          DefaultHDPersHDDTarget)
                       + q.ssd * TargetOf("PRICE_TARGET_HD_PERS_SSD",
                                          DefaultHDPersSSDTarget)
                       + q.nvme * TargetOf("PRICE_TARGET_HD_PERS_NVME",
                                           DefaultHDPersNVMETarget)
                       + q.endpoints * TargetOf("PRICE_TARGET_ENDPOINT",
                                                DefaultEndpointTarget)
                       + q.ips * TargetOf("PRICE_TARGET_IP", DefaultIPTarget))
                  + gpuCost * CostUnit
            /\ (gpuCost = 0 /\ \A f \in DOMAIN q : q[f] = 0)
                  => bidOut.out.totalCostUsdTarget = 0

\* The rich unit at default targets: 3 x 1.60 + 3 x 0.80 + 2 x (0.02 +
\* 0.01 + 0.03 + 0.04) + 4 x 0.05 + 2 x 5.00 = 17.60 USD.
C22_Witness ==
    /\ BidDone
    /\ bidOut.out.priced
    /\ BidUnits = <<RichUnit(PriceOf("uakt", 1000 * RateUnit))>>
    /\ ~bidOut.env.PRICE_TARGET_CPU.set
    /\ bidOut.out.totalCostUsdTarget = 1760 * MilliUnit

\* A run of scenario A that reached pricing: default price targets, no
\* GPU mapping needed, exchange rate 2.50.
ScenarioARun ==
    /\ BidDone
    /\ bidOut.request = ScenarioA
    /\ bidOut.out.priced
    /\ \A v \in DOMAIN bidOut.env :
          v \notin {"WHITELIST_URL", "AKASH_OWNER", "GPU"} => ~bidOut.env[v].set
    /\ bidOut.out.feed.price = Rate250

\* What the ephemeral entry of scenario A adds to the monthly cost, in
\* cost units: the cost less the CPU, memory and endpoint terms.
ScenarioAEphemeralCost ==
    bidOut.out.totalCostUsdTarget
        - (100 * DefaultCPUTarget + 250 * DefaultMemoryTarget
               + MilliUnit * DefaultEndpointTarget)

\* The distance of the per-block uakt rate from `target` (in rate units)
\* is below 1% of target.
WithinOnePercent(rate, target) ==
    /\ 100 * (rate - target) < target
    /\ 100 * (target - rate) < target

----------------------------------------------------------------------------
(* SpecRates: CalculateBlockRates on bounded inputs *)

\* Monthly costs in cost units: nothing, 0.41, 0.415, 0.43, 17.60,
\* 87.65856, 175.31712 and 200.43 USD.
MonthlyCosts ==
    {0, 41 * MilliUnit, 415 * CentUnit, 43 * MilliUnit, 1760 * MilliUnit,
     8765856, 2 * 8765856, 20043 * MilliUnit}

\* Exchange rates in price units: none (0), 0.50, 1.00, 2.50 and 3.214567
\* USD per AKT.
ExchangeRates ==
    {0, PriceUnit \div 2, PriceUnit, Rate250, 3214567 * (PriceUnit \div RateUnit)}

InitRates ==
    /\ rateCall \in [totalCostUsdTarget : MonthlyCosts, usdPerAkt : ExchangeRates,
                     precision : {2, 6, 18}, done : {FALSE}, rates : {<<>>}]
    /\ parseCall = <<>>
    /\ CacheIdle
    /\ RaceIdle
    /\ GPUIdle
    /\ ResIdle
    /\ DenomIdle
    /\ BidIdle

\* One call of CalculateBlockRates on the arguments drawn.
Convert ==
    /\ ~rateCall.done
    /\ rateCall' =
          [rateCall EXCEPT
              !.done = TRUE,
              !.rates = CalculateBlockRates(rateCall.totalCostUsdTarget,
                                            rateCall.usdPerAkt,
                                            rateCall.precision)]
    /\ UNCHANGED <<cacheVars, raceVars, gpuVars, resVars, denomVars, bidVars,
                   parseCall>>

NextRates == Convert

SpecRates == InitRates /\ [][NextRates]_vars

----------------------------------------------------------------------------
(* Claims about rate conversion, checked under SpecRates *)

\* Natural numbers of any size, as their digits to the base 10000, least
\* significant first: products are formed without leaving 32 bits.
Base == Pow10(4)

RECURSIVE Limbs(_)
Limbs(n) == IF n < Base THEN <<n>> ELSE <<n % Base>> \o Limbs(n \div Base)

RECURSIVE Carry(_, _, _)
Carry(coeffs, k, carry) ==
    IF k > Len(coeffs)
    THEN IF carry = 0 THEN <<>> ELSE Limbs(carry)
    ELSE <<(coeffs[k] + carry) % Base>>
            \o Carry(coeffs, k + 1, (coeffs[k] + carry) \div Base)

RECURSIVE Strip(_)
Strip(x) ==
    IF Len(x) > 1 /\ x[Len(x)] = 0 THEN Strip(SubSeq(x, 1, Len(x) - 1)) ELSE x

Times(x, y) ==
    LET coeffs == [k \in 1..(Len(x) + Len(y) - 1) |->
                      SumOver({i \in DOMAIN x : k + 1 - i \in DOMAIN y},
                              [i \in DOMAIN x |->
                                  IF k + 1 - i \in DOMAIN y
                                  THEN x[i] * y[k + 1 - i] ELSE 0])]
    IN  Strip(Carry(coeffs, 1, 0))

RECURSIVE LessFrom(_, _, _)
LessFrom(x, y, k) ==
    IF k = 0 THEN FALSE
    ELSE IF x[k] # y[k] THEN x[k] < y[k]
    ELSE LessFrom(x, y, k - 1)

Less(x, y) ==
    IF Len(x) # Len(y) THEN Len(x) < Len(y) ELSE LessFrom(x, y, Len(x))

AtMost(x, y) == ~Less(y, x)

\* a * b * c * d
Product(a, b, c, d) ==
    Times(Times(Limbs(a), Limbs(b)), Times(Limbs(c), Limbs(d)))

\* What the fixed-point rate in uakt can fall short of the quotient: the
\* monthly total is carried in whole uakt.
RateSlack == (RateUnit * BlocksDen) \div BlocksNum + 2

RatesDone == rateCall.done /\ rateCall.usdPerAkt > 0

\* C24: ratePerBlockUakt = (monthly USD cost / usdPerAkt) x 1,000,000 /
\* BlocksPerMonth and ratePerBlockUsd = monthly USD cost / BlocksPerMonth,
\* to the resolution of the fixed-point rates, with BlocksPerMonth =
\* (60 / 6.117) x 24 x 60 x 30.437 (about 429,909); hence ratePerBlockUakt x
\* usdPerAkt = ratePerBlockUsd x 1,000,000 for every positive exchange rate.
C24_BlockRateFormulas ==
    /\ Product(BlocksNum, AverageBlockTimeMillis, 1, 1)
          = Product(60 * 24 * 60, DaysPerMonthMillis, BlocksDen, 1)
    /\ BlocksNum \div BlocksDen = 429909
    /\ (rateCall # <<>> /\ RatesDone) =>
        LET c == rateCall.totalCostUsdTarget
            u == rateCall.usdPerAkt
            R == rateCall.rates.ratePerBlockUakt
            S == rateCall.rates.ratePerBlockUsd
            inUakt == Product(c, (1000000 \div CostUnit) * PriceUnit,
                              RateUnit, BlocksDen)
            inUsd == Product(c, RateUnit \div CostUnit, UsdScale, BlocksDen)
        IN  /\ AtMost(Product(R, u, BlocksNum, 1), inUakt)
            /\ Less(inUakt, Product(R + RateSlack, u, BlocksNum, 1))
            /\ AtMost(Product(S, BlocksNum, 1, 1), inUsd)
            /\ Less(inUsd, Product(S + 1, BlocksNum, 1, 1))
            /\ AtMost(Product(R, u, UsdScale, 1),
                      Product(S + 1, 1000000, PriceUnit, 1))
            /\ Less(Product(S, 1000000, PriceUnit, 1),
                    Product(R + RateSlack, u, UsdScale, 1))

\* 87.65856 USD a month at 2.50 USD per AKT: exactly 81.56 uakt and
\* 0.0002039 USD per block.
C24_Witness ==
    /\ rateCall # <<>>
    /\ RatesDone
    /\ rateCall.totalCostUsdTarget = 8765856
    /\ rateCall.usdPerAkt = Rate250
    /\ rateCall.rates.ratePerBlockUakt = 8156 * (RateUnit \div 100)
    /\ rateCall.rates.ratePerBlockUsd = 2039 * (UsdScale \div 10)

----------------------------------------------------------------------------
(* Claims about the whitelist, checked under SpecBid *)

\* The run reached CheckWhitelist with a whitelist URL configured.
WhitelistChecked ==
    /\ BidDone
    /\ bidOut.request.Owner # ""
    /\ bidOut.request.Owner \notin SpecialAccounts
    /\ TrimTokens(bidOut.env.WHITELIST_URL, {"\""}) # <<>>

\* The GET of the whitelist failed in transport or came back with a status
\* other than 200.
FetchFailed ==
    \/ bidOut.io.wlResp.kind = "neterr"
    \/ bidOut.io.wlResp.kind = "http" /\ bidOut.io.wlResp.status # 200

\* C25: with a whitelist URL configured, a whitelist file younger than 10
\* minutes is consulted without any fetch; an absent or older file is
\* fetched again before the lookup, which then reads what was fetched; if
\* that fetch fails in transport or with a status other than 200, the check
\* fails with an error, the stale file is not consulted and its contents
\* are left unchanged.
C25_WhitelistFreshness ==
    WhitelistChecked =>
        LET before == bidOut.whitelistBefore
            check == bidOut.out.check
        IN  /\ (before.exists /\ before.age < WhitelistFreshMinutes)
                  => /\ ~check.fetched
                     /\ check.consulted
                     /\ whitelist = before
            /\ (~before.exists \/ before.age > WhitelistFreshMinutes)
                  => /\ check.fetched
                     /\ FetchFailed
                          => /\ bidOut.out.err = ErrWhitelist
                             /\ ~check.consulted
                             /\ ~bidOut.out.priced
                             /\ whitelist = before
                     /\ (check.consulted /\ bidOut.io.wlResp.kind = "http")
                          => whitelist.lines = bidOut.io.wlResp.body

\* An 11-minute-old file listing the account, and a source that answers
\* 404: the check fails and the file is as it was.
C25_Witness ==
    /\ WhitelistChecked
    /\ bidOut.whitelistBefore =
          WhitelistFile(<< <<"akash1bob">> >>, WhitelistFreshMinutes + 1)
    /\ bidOut.request.Owner = "akash1bob"
    /\ bidOut.env.AKASH_OWNER = "akash1bob"
    /\ bidOut.io.wlResp = WLStatus(404)
    /\ bidOut.out.check.fetched
    /\ bidOut.out.err = ErrWhitelist
    /\ whitelist = bidOut.whitelistBefore

----------------------------------------------------------------------------
(* SpecParse: ParseGPUPriceMappings on bounded inputs *)

(* The mapping string is the sequence of its characters; a key of the     *)
(* parsed map is the sequence of the characters of the key, a price is    *)
(* in price units or is the float64 NaN.                                  *)

\* strings.Split(s, sep): the pieces of s between the occurrences of sep.
Split(s, sep) ==
    LET cuts == {i \in DOMAIN s : s[i] = sep}
        Cut(n) == IF n = 0 THEN 0
                  ELSE IF n > Cardinality(cuts) THEN Len(s) + 1
                  ELSE CHOOSE i \in cuts : Cardinality({j \in cuts : j <= i}) = n
    IN  [k \in 1..(Cardinality(cuts) + 1) |->
            SubSeq(s, Cut(k - 1) + 1, Cut(k) - 1)]

\* strconv.ParseFloat(kv[1], 64): as ParseFloat above, and the text NaN is
\* the float64 NaN.
ParsePrice(text) ==
    IF text = <<"N", "a", "N">>
    THEN [err |-> FALSE, nan |-> TRUE, val |-> 0]
    ELSE [err |-> ParseFloat(text).err, nan |-> FALSE,
          val |-> ParseFloat(text).price]

Price(f) == [nan |-> f.nan, val |-> f.val]

NoMappings == [err |-> FALSE, mappings |-> <<>>]

\* gpu.go:22-39: the pairs from the k-th on, m the map built so far.
RECURSIVE ParsePairs(_, _, _)
ParsePairs(pairs, k, m) ==
    IF k > Len(pairs) THEN [err |-> FALSE, mappings |-> m]
    ELSE IF pairs[k] = <<>> THEN ParsePairs(pairs, k + 1, m)
    ELSE LET kv == Split(pairs[k], "=")
             value == ParsePrice(kv[2])
         IN  IF Len(kv) # 2 THEN [err |-> TRUE, mappings |-> <<>>]
             ELSE IF value.err THEN [err |-> TRUE, mappings |-> <<>>]
             ELSE ParsePairs(pairs, k + 1,
                             [x \in DOMAIN m \cup {kv[1]} |->
                                 IF x = kv[1] THEN Price(value) ELSE m[x]])

\* gpu.go:13-42
ParseGPUPriceMappings(mappingStr) ==
    IF mappingStr = <<>> THEN NoMappings
    ELSE ParsePairs(Split(mappingStr, ","), 1, <<>>)

\* The texts between commas: every text of up to two characters of = a 1,
\* and pairs with one and two keys, decimal points, several =, letters in
\* the price, and NaN.
PairTexts ==
    UNION {[1..n -> {"=", "a", "1"}] : n \in 0..2}
        \cup {<<"a", "=", "1">>, <<"a", "=", "2">>, <<"b", "=", "1">>,
              <<"a", "=", "1", ".", "2">>, <<"a", "=", ".">>,
              <<"a", "=", "1", ".">>, <<"a", "=", ".", "1">>,
              <<"a", "=", "1", ".", "1", ".", "1">>,
              <<"a", "=", "1", "=", "2">>, <<"a", "=", "b">>,
              <<"a", "=", "1", "a">>, <<"a", "=", "N", "a", "N">>,
              <<"a", "b", "=", "1", "2">>}

\* The pairs joined with commas.
RECURSIVE Join(_)
Join(pairs) ==
    IF pairs = <<>> THEN <<>>
    ELSE IF Len(pairs) = 1 THEN pairs[1]
    ELSE pairs[1] \o <<",">> \o Join(Tail(pairs))

MappingStrings == {Join(ps) : ps \in UNION {[1..n -> PairTexts] : n \in 0..MaxPairs}}

InitParse ==
    /\ parseCall \in [mappingStr : MappingStrings, done : {FALSE},
                      result : {NoMappings}, fatal : {FALSE}]
    /\ rateCall = <<>>
    /\ CacheIdle
    /\ RaceIdle
    /\ GPUIdle
    /\ ResIdle
    /\ DenomIdle
    /\ BidIdle

\* part_001:257-261: SetPriceTargets parses PRICE_TARGET_GPU_MAPPINGS and
\* ends the process (log.Fatalf) on an error.
Parse ==
    /\ ~parseCall.done
    /\ LET result == ParseGPUPriceMappings(parseCall.mappingStr)
       IN  parseCall' = [parseCall EXCEPT !.done = TRUE, !.result = result,
                                          !.fatal = result.err]
    /\ UNCHANGED <<cacheVars, raceVars, gpuVars, resVars, denomVars, bidVars,
                   rateCall>>

NextParse == Parse

SpecParse == InitParse /\ [][NextParse]_vars

----------------------------------------------------------------------------
(* Claims about the GPU mapping configuration, checked under SpecParse *)

ParseDone == parseCall # <<>> /\ parseCall.done

\* The texts between the commas of the input.
PairsOf(mappingStr) ==
    LET ps == Split(mappingStr, ",") IN {ps[k] : k \in DOMAIN ps}

\* A text that writes a number: digits with at most one decimal point.
IsNumber(text) ==
    /\ \A i \in DOMAIN text : text[i] \in DigitSet \cup {"."}
    /\ Cardinality({i \in DOMAIN text : text[i] = "."}) <= 1
    /\ \E i \in DOMAIN text : text[i] \in DigitSet

\* A pair of the form key=number.
WellFormed(pair) ==
    /\ Cardinality({i \in DOMAIN pair : pair[i] = "="}) = 1
    /\ IsNumber(Split(pair, "=")[2])

\* The last pair of the input with the given key.
LastWith(mappingStr, key) ==
    LET ps == Split(mappingStr, ",")
        at == {k \in DOMAIN ps : ps[k] # <<>> /\ Split(ps[k], "=")[1] = key}
    IN  ps[CHOOSE k \in at : \A j \in at : j <= k]

\* C26: an input with a non-empty pair that is not of the form key=number
\* gives an error and no mapping, and SetPriceTargets then ends the
\* invocation; the empty string and empty pairs give no error; a
\* well-formed input gives exactly the listed keys, each with the price of
\* its last pair.
C26_MalformedMappingsRejected ==
    ParseDone =>
        LET pairs == PairsOf(parseCall.mappingStr) \ {<<>>}
            m == parseCall.result.mappings
        IN  IF \E p \in pairs : ~WellFormed(p)
            THEN /\ parseCall.result.err
                 /\ m = <<>>
                 /\ parseCall.fatal
            ELSE /\ ~parseCall.result.err
                 /\ ~parseCall.fatal
                 /\ DOMAIN m = {Split(p, "=")[1] : p \in pairs}
                 /\ \A key \in DOMAIN m :
                       /\ ~m[key].nan
                       /\ m[key].val =
                            ParseFloat(Split(LastWith(parseCall.mappingStr, key),
                                             "=")[2]).price

----------------------------------------------------------------------------
(* SpecTwice: the same invocation of RequestToBidPrice run twice *)

TwiceRequests ==
    {[Owner |-> o,
      GSpec |-> GSpecOf(<<SmallUnit(PriceOf("uakt", 1000 * RateUnit))>>),
      PricePrecision |-> 0] :
        o \in {"akash1alice", "akash1bob",
               "akash1fxa9ss3dg6nqyz8aluyaa6svypgprk5tw9fa4q"}}

\* The configuration: no whitelist URL or a quoted one, AKASH_OWNER bob,
\* default price targets, no GPU mapping.
TwiceEnvs ==
    {EnvOf(url, "akash1bob", CHOOSE t \in TargetEnvs : ~t.PRICE_TARGET_CPU.set,
           [err |-> FALSE, mappings |-> <<>>]) :
        url \in {<<>>, <<"\"", "https://example.com/whitelist", "\"">>}}

\* What the outside answers to one run: the whitelist source is down or
\* serves a list with or without bob; the cache file can or cannot be
\* read; the primary price source is down or serves 2.50 or 1.00 and the
\* fallback is down.
TwiceIOs ==
    {IOOf(wlResp, "ok", readOk, primary, NetErr, "ok") :
        wlResp \in {WLNetErr, WLBody(<< <<"akash1bob">> >>),
                    WLBody(<< <<"akash1carol">> >>)},
        readOk \in BOOLEAN,
        primary \in {NetErr, PriceJSON("price", Rate250),
                     PriceJSON("price", PriceUnit)}}

\* A file dt minutes later.
Aged(f, dt) == IF f.exists THEN [f EXCEPT !.age = @ + dt] ELSE f

InitTwice ==
    /\ cache \in {NoFile, File(FormatF(Rate250), 1)}
    /\ whitelist \in {NoWhitelist, WhitelistFile(<< <<"akash1bob">> >>, 1)}
    /\ bidOut = <<>>
    /\ prevBid = <<>>
    /\ runs = 0
    /\ calls = 0
    /\ last = NoCall
    /\ RaceIdle
    /\ GPUIdle
    /\ ResIdle
    /\ DenomIdle
    /\ PureIdle

\* What a run of RequestToBidPrice leaves in bidOut.
RunRecord(request, env, io, c, file) ==
    [request |-> request, env |-> env, io |-> io, cacheBefore |-> c,
     whitelistBefore |-> file,
     out |-> RequestToBidPrice(request, env, io, c, file)]

\* The first run.
FirstRun ==
    /\ runs = 0
    /\ \E request \in TwiceRequests, env \in TwiceEnvs, io \in TwiceIOs :
          LET r == RunRecord(request, env, io, cache, whitelist)
          IN  /\ bidOut' = r
              /\ cache' = r.out.cache
              /\ whitelist' = r.out.whitelist
    /\ runs' = 1
    /\ UNCHANGED <<calls, last, prevBid, raceVars, gpuVars, resVars, denomVars,
                   pureVars>>

\* The same request under the same configuration run again, at once or
\* ten minutes later, the outside answering as it then does.
Rerun ==
    /\ runs = 1
    /\ \E io \in TwiceIOs, dt \in {0, WhitelistFreshMinutes} :
          LET r == RunRecord(bidOut.request, bidOut.env, io, Aged(cache, dt),
                             Aged(whitelist, dt))
          IN  /\ bidOut' = r
              /\ cache' = r.out.cache
              /\ whitelist' = r.out.whitelist
    /\ prevBid' = bidOut
    /\ runs' = 2
    /\ UNCHANGED <<calls, last, raceVars, gpuVars, resVars, denomVars, pureVars>>

NextTwice == FirstRun \/ Rerun

SpecTwice == InitTwice /\ [][NextTwice]_vars

----------------------------------------------------------------------------
(* Claims about repeated runs, checked under SpecTwice *)

TwiceDone == runs = 2 /\ prevBid # <<>>

\* The cached rate a run found, if the file is fresh.
FreshRate(b) ==
    IF Expired(b.cacheBefore) THEN <<>> ELSE b.cacheBefore.text

\* Both runs found the same fresh cached rate.
SameFreshRate ==
    /\ FreshRate(prevBid) # <<>>
    /\ FreshRate(prevBid) = FreshRate(bidOut)

\* What a run shows to its caller: the error, or the price printed.
OutcomeOf(b) ==
    [err |-> b.out.err, check |-> b.out.check.err, special |-> b.out.special,
     printed |-> b.out.printed]

\* The run left the text of the cache file as it found it.
KeepsRate(b) ==
    /\ b.out.cache.exists
    /\ b.out.cache.text = b.cacheBefore.text

Listed(file, account) ==
    /\ file.exists
    /\ \E i \in DOMAIN file.lines :
          TrimTokens(file.lines[i], {" "}) = <<account>>

\* The run went on to the price feed.
Proceeded == bidOut.out.feed # NoCall

\* C28: with a whitelist URL configured and an owner that is not a special
\* account, the run goes on to the price feed and to pricing only if the
\* Owner of the request is a line of the whitelist.
C28_OnlyListedOwnersProceed ==
    (WhitelistChecked /\ (Proceeded \/ bidOut.out.priced)) =>
        Listed(whitelist, bidOut.request.Owner)

\* C29: a run that aborts because the price information of the request is
\* missing makes no request to the price sources and leaves the persisted
\* rate unchanged.
C29_PriceMissingTouchesNothing ==
    (BidDone /\ bidOut.out.err = ErrPriceMissing) =>
        /\ bidOut.out.feed.requests = <<>>
        /\ cache = bidOut.cacheBefore

----------------------------------------------------------------------------
(* Claims about the price cache round trip, checked under Spec *)

\* C30: writing the price cache and reading it back is lossless: the rate
\* returned by a refreshing invocation that persisted it equals the rate
\* returned by the next invocation, which hits the cache and reads what was
\* persisted.
C30_WriteThenReadLossless ==
    [][(/\ last.path = "refresh"
        /\ last.write = "ok"
        /\ ~last.err
        /\ calls' = calls + 1
        /\ last'.path = "hit")
          => last'.price = last.price]_vars

====
